---- MODULE Spec2Model ----
(***************************************************************************)
(* Session-resilience layer of the Selenium ad testers:                    *)
(*   edge_ad_render_tester.py  (close_unexpected_windows,                  *)
(*                              close_ad_popup_if_present,                 *)
(*                              inspect_for_ad_elements)                   *)
(*   monetag_ad_tester.py      (close_additional_windows,                  *)
(*                              dismiss_initial_overlay, wait_for_ads)     *)
(*                                                                         *)
(* The browser session is the environment: its window list, the focused    *)
(* window, the page's close buttons, the ad elements present at each clock *)
(* tick.  Every Selenium call is one step and may raise a                  *)
(* WebDriverException (a session-communication fault), at most MaxFaults   *)
(* times per run.  A function is entered with its return label on `stack`; *)
(* it leaves by Return (ret set) or Raise (exc set).                       *)
(***************************************************************************)
EXTENDS Integers, Sequences, FiniteSets, TLC

\* ------------------------------------------------------------------ bounds
MaxWindows == 3      \* windows open (and handles known) when a call starts
MaxFaults == 1       \* session-communication faults injected per run
MaxPopups == 1       \* windows one click may open
MaxSpans == 2        \* spans the Edge fallback search may return
MaxTimeout == 2      \* timeout of wait_for_ads, in poll ticks
MaxTags == 2         \* script and iframe tags of a document
MaxBudget == 2       \* largest iteration budget of a run
MaxCycles == 3       \* cycles an unbounded run is followed for
MaxWait == 2         \* largest wait bound of run_ad_navigation_test

VARIABLES
    pc, stack, exc, ret, call,                      \* control
    handles, focus, opened,                         \* browser windows
    main_handle, primary_handle, pending, handle,   \* locals of the window closers
    present, overlay, closeSpans,                   \* the page's close controls
    locator, before_handles, new_handles, buttons,  \* locals of the overlay dismissers
    now, adsNow, timeline,                          \* clock, ad locators present now and at each tick
    timeout, ad_locator, end_time,                  \* locals of wait_for_ads
    doc, found_elements,                            \* the document's tags, local of inspect_for_ad_elements
    log, faultLog, entry, trace,                    \* diagnostics, injected faults, state at call, attempts
    session, driver, quits,                         \* the browser session, the runner's driver variable, driver.quit() calls
    args, cycle, finished, wait_duration, results,  \* a run's arguments, loop counter, cycles run to their end, last dwell, result list
    failures, cancelled, actedAfterFatal,           \* history: primary-action failures, KeyboardInterrupt, calls on a dead session
    exit_code, summary, debug,                      \* what main returns, whether it printed its summary; debug notes of a cycle
    caller, calls, ready,                           \* the step that calls the functions, the calls it made, document.readyState is complete
    popup_urls, adsDetected, both_buttons_visible   \* locals of a click cycle of the nav and play testers

ctlVars == <<pc, stack, exc, ret>>
winVars == <<handles, focus, opened>>
reconVars == <<main_handle, primary_handle, pending, handle>>
pageVars == <<present, overlay, closeSpans>>
dismissVars == <<locator, before_handles, new_handles, buttons>>
waitVars == <<now, adsNow, timeline, timeout, ad_locator, end_time>>
inspectVars == <<doc, found_elements>>
runVars == <<session, driver, quits, args, cycle, finished, wait_duration, results,
             failures, cancelled, actedAfterFatal, exit_code, summary, debug>>
stepVars == <<caller, calls, ready, popup_urls, adsDetected, both_buttons_visible>>
vars == <<pc, stack, exc, ret, call, handles, focus, opened,
          main_handle, primary_handle, pending, handle,
          present, overlay, closeSpans,
          locator, before_handles, new_handles, buttons,
          now, adsNow, timeline, timeout, ad_locator, end_time,
          doc, found_elements,
          log, faultLog, entry, trace,
          session, driver, quits, args, cycle, finished, wait_duration, results,
          failures, cancelled, actedAfterFatal, exit_code, summary, debug,
          caller, calls, ready, popup_urls, adsDetected, both_buttons_visible>>

\* ----------------------------------------------------------------- helpers
Range(s) == {s[i] : i \in DOMAIN s}

Remove(s, h) == SelectSeq(s, LAMBDA x : x # h)

\* All duplicate-free sequences over S (the enumeration order of a window
\* list is arbitrary).
InjSeqs(S) ==
    UNION {{s \in [1..n -> S] : \A i, j \in 1..n : i # j => s[i] # s[j]} :
           n \in 0..Cardinality(S)}

RetNone == [kind |-> "None", val |-> 0]
RetBool(b) == [kind |-> "bool", val |-> IF b THEN 1 ELSE 0]
RetHandle(h) == [kind |-> "handle", val |-> h]

\* ----------------------------------------------------------------- control
Goto(l) == pc' = l /\ UNCHANGED <<stack, exc, ret>>

Return(v) ==
    /\ pc' = Head(stack)
    /\ stack' = Tail(stack)
    /\ ret' = v
    /\ exc' = "none"

Raise(e) ==
    /\ pc' = Head(stack)
    /\ stack' = Tail(stack)
    /\ ret' = RetNone
    /\ exc' = e

\* ----------------------------------------------------------------- browser
\* A command may be hit by a communication fault while the budget lasts.
FaultChoice == IF Len(faultLog) < MaxFaults THEN {FALSE, TRUE} ELSE {FALSE}

NoteFault(fault, h) ==
    faultLog' = IF fault THEN Append(faultLog, [at |-> pc, h |-> h]) ELSE faultLog

\* Closing the last window ends the session: every later command raises.
SessionAlive == handles # <<>>

IsOpen(h) == SessionAlive /\ h \in Range(handles)

\* driver.window_handles / driver.current_window_handle / driver.title ...
\* fail on a fault or a dead session; commands addressed to the current
\* window also fail when that window is closed (NoSuchWindowException).
SessionCallFails(fault) == fault \/ ~SessionAlive

WindowCallFails(fault) == fault \/ ~IsOpen(focus)

\* driver.switch_to.window(h)
SwitchFails(fault, h) == fault \/ ~IsOpen(h)

\* driver.close(): closes the focused window; focus stays on the dead handle.
CloseWindow == handles' = Remove(handles, focus) /\ UNCHANGED <<focus, opened>>

\* ------------------------------------------- close_unexpected_windows (Edge)
\* line 134: current_handles = driver.window_handles
cuw_enumerate ==
    /\ pc = "cuw_enumerate"
    /\ \E fault \in FaultChoice :
          /\ NoteFault(fault, 0)
          /\ IF SessionCallFails(fault)
             THEN Raise("WebDriverException") /\ UNCHANGED pending
             ELSE pending' = handles /\ Goto("cuw_loop")
    /\ UNCHANGED <<stepVars, runVars, winVars, main_handle, primary_handle, handle, log, call, entry, pageVars, dismissVars, trace, waitVars, inspectVars>>

\* Mutant of cuw_loop: the main handle is not skipped.
cuw_loop_no_skip ==
    /\ pc = "cuw_loop"
    /\ IF pending = <<>>
       THEN Goto("cuw_reselect") /\ UNCHANGED <<pending, handle>>
       ELSE /\ handle' = Head(pending)
            /\ pending' = Tail(pending)
            /\ Goto("cuw_switch")
    /\ UNCHANGED <<stepVars, runVars, winVars, main_handle, primary_handle, log, faultLog, call, entry, pageVars, dismissVars, trace, waitVars, inspectVars>>

\* lines 135-137: for handle in current_handles: if handle == main_handle: continue
cuw_loop ==
    /\ pc = "cuw_loop"
    /\ IF pending = <<>>
       THEN Goto("cuw_reselect") /\ UNCHANGED <<pending, handle>>
       ELSE /\ handle' = Head(pending)
            /\ pending' = Tail(pending)
            /\ IF Head(pending) = main_handle
               THEN Goto("cuw_loop")
               ELSE Goto("cuw_switch")
    /\ UNCHANGED <<stepVars, runVars, winVars, main_handle, primary_handle, log, faultLog, call, entry, pageVars, dismissVars, trace, waitVars, inspectVars>>

\* line 138: driver.switch_to.window(handle)   (no handler: a failure propagates)
cuw_switch ==
    /\ pc = "cuw_switch"
    /\ \E fault \in FaultChoice :
          /\ NoteFault(fault, handle)
          /\ IF SwitchFails(fault, handle)
             THEN Raise("WebDriverException") /\ UNCHANGED focus
             ELSE focus' = handle /\ Goto("cuw_title")
    /\ UNCHANGED <<stepVars, runVars, handles, opened, reconVars, log, call, entry, pageVars, dismissVars, trace, waitVars, inspectVars>>

\* line 139: logger.info(..., driver.title or "untitled")
cuw_title ==
    /\ pc = "cuw_title"
    /\ \E fault \in FaultChoice :
          /\ NoteFault(fault, handle)
          /\ IF WindowCallFails(fault)
             THEN Raise("WebDriverException")
             ELSE Goto("cuw_close")
    /\ UNCHANGED <<stepVars, runVars, winVars, reconVars, log, call, entry, pageVars, dismissVars, trace, waitVars, inspectVars>>

\* line 140: driver.close()
cuw_close ==
    /\ pc = "cuw_close"
    /\ \E fault \in FaultChoice :
          /\ NoteFault(fault, handle)
          /\ IF WindowCallFails(fault)
             THEN Raise("WebDriverException") /\ UNCHANGED winVars
             ELSE CloseWindow /\ Goto("cuw_loop")
    /\ UNCHANGED <<stepVars, runVars, reconVars, log, call, entry, pageVars, dismissVars, trace, waitVars, inspectVars>>

\* lines 142-148: promote the first remaining handle when the main one is
\* gone, else switch back to the main one; return main_handle.
cuw_reselect ==
    /\ pc = "cuw_reselect"
    /\ \E fault \in FaultChoice :
          /\ NoteFault(fault, 0)
          /\ IF SessionCallFails(fault)
             THEN /\ Raise("WebDriverException")
                  /\ UNCHANGED <<focus, main_handle, log>>
             ELSE IF main_handle \notin Range(handles) /\ handles # <<>>
                  THEN /\ main_handle' = handles[1]
                       /\ focus' = handles[1]
                       /\ log' = Append(log, "warning: main window changed")
                       /\ Return(RetHandle(handles[1]))
                  ELSE IF SwitchFails(FALSE, main_handle)
                       THEN /\ Raise("WebDriverException")
                            /\ UNCHANGED <<focus, main_handle, log>>
                       ELSE /\ focus' = main_handle
                            /\ Return(RetHandle(main_handle))
                            /\ UNCHANGED <<main_handle, log>>
    /\ UNCHANGED <<stepVars, runVars, handles, opened, primary_handle, pending, handle, call, entry, pageVars, dismissVars, trace, waitVars, inspectVars>>

\* --------------------------------------- close_additional_windows (Monetag)
\* lines 76-79: primary_handle = driver.current_window_handle; on
\* WebDriverException: return
caw_primary ==
    /\ pc = "caw_primary"
    /\ \E fault \in FaultChoice :
          /\ NoteFault(fault, 0)
          /\ IF WindowCallFails(fault)
             THEN Return(RetNone) /\ UNCHANGED primary_handle
             ELSE primary_handle' = focus /\ Goto("caw_enumerate")
    /\ UNCHANGED <<stepVars, runVars, winVars, main_handle, pending, handle, log, call, entry, pageVars, dismissVars, trace, waitVars, inspectVars>>

\* line 81: for handle in list(driver.window_handles)   (not guarded)
caw_enumerate ==
    /\ pc = "caw_enumerate"
    /\ \E fault \in FaultChoice :
          /\ NoteFault(fault, 0)
          /\ IF SessionCallFails(fault)
             THEN Raise("WebDriverException") /\ UNCHANGED pending
             ELSE pending' = handles /\ Goto("caw_loop")
    /\ UNCHANGED <<stepVars, runVars, winVars, main_handle, primary_handle, handle, log, call, entry, pageVars, dismissVars, trace, waitVars, inspectVars>>

\* lines 81-83: next handle; skip the primary one
caw_loop ==
    /\ pc = "caw_loop"
    /\ IF pending = <<>>
       THEN Goto("caw_back") /\ UNCHANGED <<pending, handle>>
       ELSE /\ handle' = Head(pending)
            /\ pending' = Tail(pending)
            /\ IF Head(pending) = primary_handle
               THEN Goto("caw_loop")
               ELSE Goto("caw_switch")
    /\ UNCHANGED <<stepVars, runVars, winVars, main_handle, primary_handle, log, faultLog, call, entry, pageVars, dismissVars, trace, waitVars, inspectVars>>

\* lines 84-85: with suppress(WebDriverException): driver.switch_to.window(handle)
caw_switch ==
    /\ pc = "caw_switch"
    /\ \E fault \in FaultChoice :
          /\ NoteFault(fault, handle)
          /\ IF SwitchFails(fault, handle)
             THEN Goto("caw_loop") /\ UNCHANGED focus
             ELSE focus' = handle /\ Goto("caw_close")
    /\ UNCHANGED <<stepVars, runVars, handles, opened, reconVars, log, call, entry, pageVars, dismissVars, trace, waitVars, inspectVars>>

\* line 86: driver.close(), still under the suppress
caw_close ==
    /\ pc = "caw_close"
    /\ \E fault \in FaultChoice :
          /\ NoteFault(fault, handle)
          /\ IF WindowCallFails(fault)
             THEN UNCHANGED winVars
             ELSE CloseWindow
    /\ Goto("caw_loop")
    /\ UNCHANGED <<stepVars, runVars, reconVars, log, call, entry, pageVars, dismissVars, trace, waitVars, inspectVars>>

\* lines 88-89: with suppress(WebDriverException): driver.switch_to.window(primary_handle)
caw_back ==
    /\ pc = "caw_back"
    /\ \E fault \in FaultChoice :
          /\ NoteFault(fault, 0)
          /\ IF SwitchFails(fault, primary_handle)
             THEN UNCHANGED focus
             ELSE focus' = primary_handle
    /\ Return(RetNone)
    /\ UNCHANGED <<stepVars, runVars, handles, opened, reconVars, log, call, entry, pageVars, dismissVars, trace, waitVars, inspectVars>>

\* ------------------------------------------------------- the page's controls
\* present: the close-button locators that resolve to a visible, enabled
\* element; overlay: a layer that intercepts clicks on them
\* (ElementClickInterceptedException); closeSpans: the spans the fallback
\* search of the Edge dismisser returns, each shown or hidden.
Event(op, pass, loc, out) == [op |-> op, pass |-> pass, loc |-> loc, out |-> out]

\* A click that lands may open up to MaxPopups new windows; focus stays.
NewWindows(k) == [i \in 1..k |-> opened + i]

ClickLands(k) ==
    /\ handles' = handles \o NewWindows(k)
    /\ opened' = opened + k
    /\ UNCHANGED focus

\* ----------------------------------------- close_ad_popup_if_present (Edge)
\* lines 153-157: the three locators, tried in list order
popup_locators == <<1, 2, 3>>

\* line 159: for locator in popup_locators (continue at lines 167, 170)
cap_next ==
    IF locator < Len(popup_locators)
    THEN locator' = locator + 1 /\ Goto("cap_wait")
    ELSE locator' = locator /\ Goto("cap_fallback")

\* line 161: WebDriverWait(driver, 2).until(EC.element_to_be_clickable(locator))
cap_wait ==
    /\ pc = "cap_wait"
    /\ \E fault \in FaultChoice :
          /\ NoteFault(fault, 0)
          /\ IF WindowCallFails(fault)
             THEN /\ trace' = Append(trace, Event("locator", 1, popup_locators[locator], "error"))
                  /\ cap_next
             ELSE IF popup_locators[locator] \notin present
                  THEN /\ trace' = Append(trace, Event("locator", 1, popup_locators[locator], "timeout"))
                       /\ cap_next
                  ELSE Goto("cap_scroll") /\ UNCHANGED <<locator, trace>>
    /\ UNCHANGED <<stepVars, runVars, winVars, reconVars, pageVars, before_handles, new_handles, buttons,
                   log, call, entry, waitVars, inspectVars>>

\* line 162: driver.execute_script("...scrollIntoView...", candidate)
cap_scroll ==
    /\ pc = "cap_scroll"
    /\ \E fault \in FaultChoice :
          /\ NoteFault(fault, 0)
          /\ IF WindowCallFails(fault)
             THEN /\ trace' = Append(trace, Event("locator", 1, popup_locators[locator], "error"))
                  /\ cap_next
             ELSE Goto("cap_click") /\ UNCHANGED <<locator, trace>>
    /\ UNCHANGED <<stepVars, runVars, winVars, reconVars, pageVars, before_handles, new_handles, buttons,
                   log, call, entry, waitVars, inspectVars>>

\* Mutant of cap_closed: the return after the click is missing, the loop
\* goes on to the next locator.
cap_closed_no_return == cap_next

\* lines 164-165: logger.info("Closed ad popup ..."); return True
cap_closed == Return(RetBool(TRUE)) /\ UNCHANGED locator

\* line 163: candidate.click()
cap_click ==
    /\ pc = "cap_click"
    /\ \E fault \in FaultChoice :
          /\ NoteFault(fault, 0)
          /\ IF WindowCallFails(fault) \/ overlay
             THEN /\ trace' = Append(trace, Event("locator", 1, popup_locators[locator], "error"))
                  /\ cap_next
                  /\ UNCHANGED winVars
             ELSE /\ trace' = Append(trace, Event("locator", 1, popup_locators[locator], "clicked"))
                  /\ \E k \in 0..MaxPopups : ClickLands(k)
                  /\ cap_closed
    /\ UNCHANGED <<stepVars, runVars, reconVars, pageVars, before_handles, new_handles, buttons,
                   log, call, entry, waitVars, inspectVars>>

\* lines 172-176, 182-185: fallback_buttons = driver.find_elements(...)
cap_fallback ==
    /\ pc = "cap_fallback"
    /\ \E fault \in FaultChoice :
          /\ NoteFault(fault, 0)
          /\ IF WindowCallFails(fault)
             THEN Return(RetBool(FALSE)) /\ UNCHANGED buttons
             ELSE buttons' = closeSpans /\ Goto("cap_fb_loop")
    /\ UNCHANGED <<stepVars, runVars, winVars, reconVars, pageVars, locator, before_handles, new_handles,
                   log, call, entry, trace, waitVars, inspectVars>>

\* lines 177-178, 185: for button in fallback_buttons:
\*                         if button.is_displayed() and button.is_enabled()
cap_fb_loop ==
    /\ pc = "cap_fb_loop"
    /\ IF buttons = <<>>
       THEN Return(RetBool(FALSE)) /\ UNCHANGED <<buttons, faultLog>>
       ELSE \E fault \in FaultChoice :
               /\ NoteFault(fault, 0)
               /\ IF WindowCallFails(fault)
                  THEN Return(RetBool(FALSE)) /\ UNCHANGED buttons
                  ELSE IF Head(buttons) = "shown"
                       THEN Goto("cap_fb_click") /\ UNCHANGED buttons
                       ELSE buttons' = Tail(buttons) /\ Goto("cap_fb_loop")
    /\ UNCHANGED <<stepVars, runVars, winVars, reconVars, pageVars, locator, before_handles, new_handles,
                   log, call, entry, trace, waitVars, inspectVars>>

\* Mutant of cap_fb_closed: the fallback click falls through to the final
\* return False.
cap_fb_closed_false == Return(RetBool(FALSE))

\* lines 180-181: logger.info("... via fallback ..."); return True
cap_fb_closed == Return(RetBool(TRUE))

\* line 179: button.click()   (a failure ends the search: lines 182-185)
cap_fb_click ==
    /\ pc = "cap_fb_click"
    /\ \E fault \in FaultChoice :
          /\ NoteFault(fault, 0)
          /\ IF WindowCallFails(fault) \/ overlay
             THEN /\ trace' = Append(trace, Event("fallback", 1, 0, "error"))
                  /\ Return(RetBool(FALSE))
                  /\ UNCHANGED winVars
             ELSE /\ trace' = Append(trace, Event("fallback", 1, 0, "clicked"))
                  /\ \E k \in 0..MaxPopups : ClickLands(k)
                  /\ cap_fb_closed
    /\ UNCHANGED <<stepVars, runVars, reconVars, pageVars, dismissVars, log, call, entry, waitVars, inspectVars>>

\* ------------------------------------------ dismiss_initial_overlay (Monetag)
\* lines 39-45: the five locators, tried in list order
CLOSE_BUTTON_LOCATORS == <<1, 2, 3, 4, 5>>

Perms(S) == {q \in InjSeqs(S) : Len(q) = Cardinality(S)}

\* lines 99-102: primary_handle = driver.current_window_handle; on
\* WebDriverException: return
dio_primary ==
    /\ pc = "dio_primary"
    /\ \E fault \in FaultChoice :
          /\ NoteFault(fault, 0)
          /\ IF WindowCallFails(fault)
             THEN Return(RetNone) /\ UNCHANGED <<primary_handle, locator>>
             ELSE primary_handle' = focus /\ locator' = 1 /\ Goto("dio_wait")
    /\ UNCHANGED <<stepVars, runVars, winVars, main_handle, pending, handle, pageVars,
                   before_handles, new_handles, buttons, log, call, entry, trace, waitVars, inspectVars>>

\* line 105: for locator_by, locator_value in CLOSE_BUTTON_LOCATORS
\* (falls through to line 119 after the last one)
dio_next ==
    IF locator < Len(CLOSE_BUTTON_LOCATORS)
    THEN locator' = locator + 1 /\ Goto("dio_wait")
    ELSE locator' = locator /\ Goto("dio_url")

\* lines 107-109, 113-116: WebDriverWait(driver, OVERLAY_WAIT).until(
\*                              EC.element_to_be_clickable(...))
dio_wait ==
    /\ pc = "dio_wait"
    /\ \E fault \in FaultChoice :
          /\ NoteFault(fault, 0)
          /\ IF WindowCallFails(fault)
             THEN /\ trace' = Append(trace, Event("locator", 1, CLOSE_BUTTON_LOCATORS[locator], "error"))
                  /\ dio_next
             ELSE IF CLOSE_BUTTON_LOCATORS[locator] \notin present
                  THEN /\ trace' = Append(trace, Event("locator", 1, CLOSE_BUTTON_LOCATORS[locator], "timeout"))
                       /\ dio_next
                  ELSE Goto("dio_click") /\ UNCHANGED <<locator, trace>>
    /\ UNCHANGED <<stepVars, runVars, winVars, reconVars, pageVars, before_handles, new_handles, buttons,
                   log, call, entry, waitVars, inspectVars>>

\* lines 111-112: log("Closed via locator ..."); return
dio_closed == Return(RetNone)

\* line 110: button.click()
dio_click ==
    /\ pc = "dio_click"
    /\ \E fault \in FaultChoice :
          /\ NoteFault(fault, 0)
          /\ IF WindowCallFails(fault) \/ overlay
             THEN /\ trace' = Append(trace, Event("locator", 1, CLOSE_BUTTON_LOCATORS[locator], "error"))
                  /\ dio_next
                  /\ UNCHANGED winVars
             ELSE /\ trace' = Append(trace, Event("locator", 1, CLOSE_BUTTON_LOCATORS[locator], "clicked"))
                  /\ \E k \in 0..MaxPopups : ClickLands(k)
                  /\ dio_closed
                  /\ UNCHANGED locator
    /\ UNCHANGED <<stepVars, runVars, reconVars, pageVars, before_handles, new_handles, buttons,
                   log, call, entry, waitVars, inspectVars>>

\* line 119: current_url = driver.current_url   (not guarded)
dio_url ==
    /\ pc = "dio_url"
    /\ \E fault \in FaultChoice :
          /\ NoteFault(fault, 0)
          /\ IF WindowCallFails(fault)
             THEN Raise("WebDriverException")
             ELSE Goto("dio_before")
    /\ UNCHANGED <<stepVars, runVars, winVars, reconVars, pageVars, dismissVars, log, call, entry, trace, waitVars, inspectVars>>

\* line 120: before_handles = set(driver.window_handles)   (not guarded)
dio_before ==
    /\ pc = "dio_before"
    /\ \E fault \in FaultChoice :
          /\ NoteFault(fault, 0)
          /\ IF SessionCallFails(fault)
             THEN Raise("WebDriverException") /\ UNCHANGED before_handles
             ELSE before_handles' = Range(handles) /\ Goto("dio_body")
    /\ UNCHANGED <<stepVars, runVars, winVars, reconVars, pageVars, locator, new_handles, buttons,
                   log, call, entry, trace, waitVars, inspectVars>>

\* lines 122-127: body = driver.find_element(By.TAG_NAME, "body"); body.click()
\* The click may fail for a reason of the page (lands = FALSE) or by a fault;
\* a click that lands may remove the overlay and open windows.
dio_body ==
    /\ pc = "dio_body"
    /\ \E fault \in FaultChoice, lands \in BOOLEAN :
          /\ NoteFault(fault, 0)
          /\ IF WindowCallFails(fault) \/ ~lands
             THEN /\ trace' = Append(trace, Event("body", 1, 0, "error"))
                  /\ Goto("dio_offset")
                  /\ UNCHANGED <<winVars, overlay>>
             ELSE /\ trace' = Append(trace, Event("body", 1, 0, "clicked"))
                  /\ \E k \in 0..MaxPopups : ClickLands(k)
                  /\ overlay' \in {overlay, FALSE}
                  /\ Goto("dio_after")
    /\ UNCHANGED <<stepVars, runVars, reconVars, present, closeSpans, dismissVars, log, call, entry, waitVars, inspectVars>>

\* lines 128-133: ActionChains(driver).move_by_offset(10, 10).click().perform();
\* on WebDriverException: return
dio_offset ==
    /\ pc = "dio_offset"
    /\ \E fault \in FaultChoice :
          /\ NoteFault(fault, 0)
          /\ IF WindowCallFails(fault)
             THEN /\ trace' = Append(trace, Event("offset", 1, 0, "error"))
                  /\ Return(RetNone)
                  /\ UNCHANGED <<winVars, overlay>>
             ELSE /\ trace' = Append(trace, Event("offset", 1, 0, "clicked"))
                  /\ \E k \in 0..MaxPopups : ClickLands(k)
                  /\ overlay' \in {overlay, FALSE}
                  /\ Goto("dio_after")
    /\ UNCHANGED <<stepVars, runVars, reconVars, present, closeSpans, dismissVars, log, call, entry, waitVars, inspectVars>>

\* lines 135-136: after_handles = set(driver.window_handles)   (not guarded)
\*                new_handles = list(after_handles - before_handles)
\* The order of a list made from a set is arbitrary.
dio_after ==
    /\ pc = "dio_after"
    /\ \E fault \in FaultChoice :
          /\ NoteFault(fault, 0)
          /\ IF SessionCallFails(fault)
             THEN Raise("WebDriverException") /\ UNCHANGED <<new_handles, pending>>
             ELSE /\ new_handles' \in Perms(Range(handles) \ before_handles)
                  /\ pending' = new_handles'
                  /\ Goto("dio_nloop")
    /\ UNCHANGED <<stepVars, runVars, winVars, main_handle, primary_handle, handle, pageVars,
                   locator, before_handles, buttons, log, call, entry, trace, waitVars, inspectVars>>

\* line 138: for handle in new_handles
dio_nloop ==
    /\ pc = "dio_nloop"
    /\ IF pending = <<>>
       THEN Goto("dio_back") /\ UNCHANGED <<pending, handle>>
       ELSE handle' = Head(pending) /\ pending' = Tail(pending) /\ Goto("dio_nswitch")
    /\ UNCHANGED <<stepVars, runVars, winVars, main_handle, primary_handle, pageVars, dismissVars,
                   log, faultLog, call, entry, trace, waitVars, inspectVars>>

\* lines 139-140: with suppress(WebDriverException): driver.switch_to.window(handle)
dio_nswitch ==
    /\ pc = "dio_nswitch"
    /\ \E fault \in FaultChoice :
          /\ NoteFault(fault, handle)
          /\ IF SwitchFails(fault, handle)
             THEN Goto("dio_nloop") /\ UNCHANGED focus
             ELSE focus' = handle /\ Goto("dio_nurl")
    /\ UNCHANGED <<stepVars, runVars, handles, opened, reconVars, pageVars, dismissVars, log, call, entry, trace, waitVars, inspectVars>>

\* line 141: log(f"Closing new window: {driver.current_url}"), under the suppress
dio_nurl ==
    /\ pc = "dio_nurl"
    /\ \E fault \in FaultChoice :
          /\ NoteFault(fault, handle)
          /\ IF WindowCallFails(fault)
             THEN Goto("dio_nloop")
             ELSE Goto("dio_nclose")
    /\ UNCHANGED <<stepVars, runVars, winVars, reconVars, pageVars, dismissVars, log, call, entry, trace, waitVars, inspectVars>>

\* line 142: driver.close(), under the suppress
dio_nclose ==
    /\ pc = "dio_nclose"
    /\ \E fault \in FaultChoice :
          /\ NoteFault(fault, handle)
          /\ IF WindowCallFails(fault)
             THEN UNCHANGED winVars
             ELSE CloseWindow
    /\ Goto("dio_nloop")
    /\ UNCHANGED <<stepVars, runVars, reconVars, pageVars, dismissVars, log, call, entry, trace, waitVars, inspectVars>>

\* Mutant of dio_back: the switch back to the primary window is missing.
dio_back_stays ==
    /\ pc = "dio_back"
    /\ Goto("dio_reload")
    /\ UNCHANGED <<stepVars, runVars, winVars, reconVars, pageVars, dismissVars, log,
                   faultLog, call, entry, trace, waitVars, inspectVars>>

\* lines 144-145: with suppress(WebDriverException):
\*                    driver.switch_to.window(primary_handle)
dio_back ==
    /\ pc = "dio_back"
    /\ \E fault \in FaultChoice :
          /\ NoteFault(fault, 0)
          /\ IF SwitchFails(fault, primary_handle)
             THEN UNCHANGED focus
             ELSE focus' = primary_handle
    /\ Goto("dio_reload")
    /\ UNCHANGED <<stepVars, runVars, handles, opened, reconVars, pageVars, dismissVars, log, call, entry, trace, waitVars, inspectVars>>

\* Mutant of ReloadWanted: the reload is made whether or not a window opened.
ReloadAlways == TRUE

\* line 147: if new_handles
ReloadWanted == new_handles # <<>>

\* Mutant of dio_start_retry: after the reload the first pass starts again.
dio_restart_first_pass == locator' = 1 /\ Goto("dio_wait")

\* line 153: the second pass over the locators starts (always)
dio_start_retry == locator' = 1 /\ Goto("dio_retry")

\* lines 147-151: driver.get(current_url) under a suppress; the reloaded page
\* may show the overlay again.
dio_reload ==
    /\ pc = "dio_reload"
    /\ IF ReloadWanted
       THEN \E fault \in FaultChoice :
               /\ NoteFault(fault, 0)
               /\ IF WindowCallFails(fault)
                  THEN /\ trace' = Append(trace, Event("reload", 1, 0, "error"))
                       /\ UNCHANGED overlay
                  ELSE /\ trace' = Append(trace, Event("reload", 1, 0, "done"))
                       /\ overlay' \in BOOLEAN
       ELSE UNCHANGED <<faultLog, trace, overlay>>
    /\ dio_start_retry
    /\ UNCHANGED <<stepVars, runVars, winVars, reconVars, present, closeSpans,
                   before_handles, new_handles, buttons, log, call, entry, waitVars, inspectVars>>

\* lines 153-160: button = driver.find_element(...); button.click(); return
\* on any WebDriverException: next locator; after the last one: return
dio_retry ==
    /\ pc = "dio_retry"
    /\ \E fault \in FaultChoice :
          /\ NoteFault(fault, 0)
          /\ IF \/ WindowCallFails(fault)
                \/ CLOSE_BUTTON_LOCATORS[locator] \notin present
                \/ overlay
             THEN /\ trace' = Append(trace, Event("locator", 2, CLOSE_BUTTON_LOCATORS[locator], "error"))
                  /\ IF locator < Len(CLOSE_BUTTON_LOCATORS)
                     THEN locator' = locator + 1 /\ Goto("dio_retry")
                     ELSE locator' = locator /\ Return(RetNone)
                  /\ UNCHANGED winVars
             ELSE /\ trace' = Append(trace, Event("locator", 2, CLOSE_BUTTON_LOCATORS[locator], "clicked"))
                  /\ \E k \in 0..MaxPopups : ClickLands(k)
                  /\ Return(RetNone)
                  /\ UNCHANGED locator
    /\ UNCHANGED <<stepVars, runVars, reconVars, pageVars, before_handles, new_handles, buttons,
                   log, call, entry, waitVars, inspectVars>>

\* ------------------------------------------------------ wait_for_ads (Monetag)
\* lines 32-35: AD_IDENTIFIERS, the iframe locator first, the script locator second
AD_IDENTIFIERS == <<"iframe[src*='monetag']", "script[src*='monetag']">>

\* One sleep of the poll loop of WebDriverWait.until: the clock advances by a
\* tick and the page may gain or lose ad elements.
Tick ==
    /\ now' = now + 1
    /\ adsNow' \in SUBSET Range(AD_IDENTIFIERS)
    /\ timeline' = Append(timeline, adsNow')

\* line 165: wait = WebDriverWait(driver, timeout); line 166: first locator.
\* Each wait.until() call takes its own end_time = now + timeout.
UntilDeadline == now + timeout

wfa_start ==
    /\ pc = "wfa_start"
    /\ ad_locator' = 1
    /\ end_time' = UntilDeadline
    /\ Goto("wfa_poll")
    /\ UNCHANGED <<stepVars, runVars, call, winVars, reconVars, pageVars, dismissVars, now, adsNow, timeline,
                   timeout, inspectVars, log, faultLog, entry, trace>>

\* line 168: one evaluation of EC.presence_of_element_located(locator) inside
\* wait.until; line 169: return True.  A WebDriverException other than
\* NoSuchElementException leaves until() and is not caught by line 170.
wfa_poll ==
    /\ pc = "wfa_poll"
    /\ \E fault \in FaultChoice :
          /\ NoteFault(fault, 0)
          /\ IF WindowCallFails(fault)
             THEN Raise("WebDriverException")
             ELSE IF AD_IDENTIFIERS[ad_locator] \in adsNow
                  THEN Return(RetBool(TRUE))
                  ELSE Goto("wfa_sleep")
    /\ UNCHANGED <<stepVars, runVars, call, winVars, reconVars, pageVars, dismissVars, waitVars,
                   inspectVars, log, entry, trace>>

\* line 168: time.sleep(poll) inside wait.until, then the deadline test;
\* lines 170-172: on TimeoutException continue with the next locator, after
\* the last one return False.
wfa_sleep ==
    /\ pc = "wfa_sleep"
    /\ Tick
    /\ IF now' < end_time
       THEN Goto("wfa_poll") /\ UNCHANGED <<ad_locator, end_time>>
       ELSE IF ad_locator < Len(AD_IDENTIFIERS)
            THEN /\ ad_locator' = ad_locator + 1
                 /\ end_time' = now' + timeout
                 /\ Goto("wfa_poll")
            ELSE Return(RetBool(FALSE)) /\ UNCHANGED <<ad_locator, end_time>>
    /\ UNCHANGED <<stepVars, runVars, call, winVars, reconVars, pageVars, dismissVars, timeout,
                   inspectVars, log, faultLog, entry, trace>>

\* ------------------------------------------- inspect_for_ad_elements (Edge)
\* Strings are sequences of one-character strings.
UpperCase == <<"A", "B", "C", "D", "E", "F", "G", "H", "I", "J", "K", "L", "M",
               "N", "O", "P", "Q", "R", "S", "T", "U", "V", "W", "X", "Y", "Z">>

LowerCase == <<"a", "b", "c", "d", "e", "f", "g", "h", "i", "j", "k", "l", "m",
               "n", "o", "p", "q", "r", "s", "t", "u", "v", "w", "x", "y", "z">>

\* str.lower(), character by character
LowerChar(c) ==
    IF \E i \in DOMAIN UpperCase : UpperCase[i] = c
    THEN LowerCase[CHOOSE i \in DOMAIN UpperCase : UpperCase[i] = c]
    ELSE c

Lower(str) == [i \in DOMAIN str |-> LowerChar(str[i])]

\* line 190: ad_keywords
ad_keywords ==
    << <<"a", "d", "s">>,
       <<"a", "d", "v", "e", "r", "t">>,
       <<"d", "o", "u", "b", "l", "e", "c", "l", "i", "c", "k">>,
       <<"g", "o", "o", "g", "l", "e", "s", "y", "n", "d", "i", "c", "a", "t", "i", "o", "n">>,
       <<"a", "d", "s", "e", "r", "v", "i", "c", "e">>,
       <<"a", "d", "n", "x", "s">>,
       <<"t", "a", "b", "o", "o", "l", "a">>,
       <<"o", "u", "t", "b", "r", "a", "i", "n">> >>

\* keyword in descriptor (Python's substring test)
IsSubstring(keyword, str) ==
    \E i \in 0..(Len(str) - Len(keyword)) :
        SubSeq(str, i + 1, i + Len(keyword)) = keyword

\* Mutant of Descriptor: the .lower() is missing.
DescriptorCaseSensitive(tag) ==
    IF tag.src # <<>> THEN tag.src
    ELSE IF tag.html # <<>> THEN tag.html
    ELSE <<>>

\* lines 194, 199: (tag.get_attribute("src") or tag.get_attribute("outerHTML")
\*                  or "").lower()
Descriptor(tag) ==
    Lower(IF tag.src # <<>> THEN tag.src
          ELSE IF tag.html # <<>> THEN tag.html
          ELSE <<>>)

\* lines 195, 200: any(keyword in descriptor for keyword in ad_keywords)
HasAdKeyword(descriptor) ==
    \E n \in DOMAIN ad_keywords : IsSubstring(ad_keywords[n], descriptor)

\* lines 196, 201: descriptor[:160]
DescriptorLimit == 160

\* Mutant of Truncated: the whole descriptor is recorded.
Untruncated(descriptor) == descriptor

Truncated(descriptor) ==
    SubSeq(descriptor, 1, IF Len(descriptor) < DescriptorLimit
                          THEN Len(descriptor) ELSE DescriptorLimit)

\* driver.find_elements(By.TAG_NAME, kind): the tags of that kind, in
\* document order
FindElements(kind) == SelectSeq(doc, LAMBDA tag : tag.kind = kind)

\* lines 193-196 / 198-201: the loop over the tags of one kind, appending
\* (kind, descriptor[:160]) for each tag with an ad keyword
RECURSIVE ScanTags(_, _, _)
ScanTags(kind, tags, found) ==
    IF tags = <<>>
    THEN found
    ELSE ScanTags(kind, Tail(tags),
                  IF HasAdKeyword(Descriptor(Head(tags)))
                  THEN Append(found, <<kind, Truncated(Descriptor(Head(tags)))>>)
                  ELSE found)

\* lines 193-196: the script tags (find_elements and get_attribute are not
\* guarded: a fault propagates)
iae_scripts ==
    /\ pc = "iae_scripts"
    /\ \E fault \in FaultChoice :
          /\ NoteFault(fault, 0)
          /\ IF WindowCallFails(fault)
             THEN Raise("WebDriverException") /\ UNCHANGED found_elements
             ELSE /\ found_elements' = ScanTags("script", FindElements("script"), <<>>)
                  /\ Goto("iae_iframes")
    /\ UNCHANGED <<stepVars, runVars, call, winVars, reconVars, pageVars, dismissVars, waitVars, doc,
                   log, entry, trace>>

\* lines 198-201: the iframe tags
iae_iframes ==
    /\ pc = "iae_iframes"
    /\ \E fault \in FaultChoice :
          /\ NoteFault(fault, 0)
          /\ IF WindowCallFails(fault)
             THEN Raise("WebDriverException") /\ UNCHANGED found_elements
             ELSE /\ found_elements' =
                        ScanTags("iframe", FindElements("iframe"), found_elements)
                  /\ Goto("iae_report")
    /\ UNCHANGED <<stepVars, runVars, call, winVars, reconVars, pageVars, dismissVars, waitVars, doc,
                   log, entry, trace>>

\* lines 203-209: warn and return False when nothing was found, else log
\* each element and return True
iae_report ==
    /\ pc = "iae_report"
    /\ IF found_elements = <<>>
       THEN /\ log' = Append(log, "warning: no ad-related elements")
            /\ Return(RetBool(FALSE))
       ELSE /\ log' = Append(log, "info: detected ad signatures")
            /\ Return(RetBool(TRUE))
    /\ UNCHANGED <<stepVars, runVars, call, winVars, reconVars, pageVars, dismissVars, waitVars,
                   inspectVars, faultLog, entry, trace>>

\* ------------------------------------------------------------ the run loops
\* In a run the functions above are calls whose outcome is what they let
\* out: close_ad_popup_if_present lets no WebDriverException out, the others
\* do.  A WebDriverException is transient (the next call works again) or
\* fatal (the session is unusable: every later call raises).
calleeVars == <<call, winVars, reconVars, pageVars, dismissVars, waitVars,
                inspectVars, entry, trace>>

CallOutcomes ==
    IF session = "dead" THEN {"dead"}
    ELSE IF Len(faultLog) < MaxFaults THEN {"ok", "transient", "fatal"}
    ELSE {"ok"}

NoteCall(o) ==
    /\ faultLog' = IF o \in {"transient", "fatal"}
                   THEN Append(faultLog, [at |-> pc, h |-> 0, kind |-> o])
                   ELSE faultLog
    /\ session' = IF o = "fatal" THEN "dead" ELSE session
    /\ actedAfterFatal' = (actedAfterFatal \/ session = "dead")

\* driver.quit(): the teardown call.  ChromiumDriver.quit() swallows every
\* exception of the quit command, so it raises nothing.
Quit == quits' = quits + 1 /\ session' = "closed"

\* A finished function: return None, or let the pending exception out.
Leave == IF exc = "none" THEN Return(RetNone) ELSE Raise(exc)

\* ------------------------------------------- run_ad_navigation_test (Edge)
\* Mutant of SwapNeeded: the bounds are never swapped.
SwapNever == FALSE

\* line 239: if min_wait > max_wait
SwapNeeded == args.min_wait > args.max_wait

\* line 245: max_iterations = iterations if iterations and iterations > 0
\*           else None   (0 stands for None)
max_iterations == IF args.iterations > 0 THEN args.iterations ELSE 0

\* random.uniform(a, b) = a + (b - a) * random(): a value between the two
\* arguments, whichever is larger
Uniform(a, b) == IF a <= b THEN a..b ELSE b..a

\* lines 238-246: swap the bounds and warn; iteration_counter = 1
ran_swap ==
    /\ pc = "ran_swap"
    /\ IF SwapNeeded
       THEN /\ args' = [args EXCEPT !.min_wait = args.max_wait,
                                    !.max_wait = args.min_wait]
            /\ log' = Append(log, "warning: swapped wait bounds")
       ELSE UNCHANGED <<args, log>>
    /\ cycle' = 1
    /\ Goto("ced_launch")
    /\ UNCHANGED <<stepVars, calleeVars, faultLog, session, driver, quits, finished,
                   wait_duration, results, failures, cancelled,
                   actedAfterFatal, exit_code, summary, debug>>

\* lines 248-249, create_edge_driver line 115: webdriver.Edge(...) starts
\* the session or raises
ced_launch ==
    /\ pc = "ced_launch"
    /\ \E started \in BOOLEAN :
          IF started
          THEN session' = "live" /\ Goto("ced_configure")
          ELSE session' = session /\ Goto("ran_except")
    /\ UNCHANGED <<stepVars, calleeVars, log, faultLog, driver, quits, args, cycle,
                   finished, wait_duration, results, failures, cancelled,
                   actedAfterFatal, exit_code, summary, debug>>

\* create_edge_driver lines 116-118: driver.set_page_load_timeout(60) (not
\* guarded), apply_stealth_settings (guarded), return; line 249 binds driver
ced_configure ==
    /\ pc = "ced_configure"
    /\ \E o \in CallOutcomes :
          /\ NoteCall(o)
          /\ IF o = "ok"
             THEN driver' = TRUE /\ Goto("ran_load")
             ELSE driver' = driver /\ Goto("ran_except")
    /\ UNCHANGED <<stepVars, calleeVars, log, quits, args, cycle, finished,
                   wait_duration, results, failures, cancelled, exit_code,
                   summary, debug>>

\* lines 251-263: driver.get(url), current_window_handle, wait_for_page_ready,
\* close_ad_popup_if_present, close_unexpected_windows,
\* inspect_for_ad_elements; none guarded here
ran_load ==
    /\ pc = "ran_load"
    /\ \E o \in CallOutcomes :
          /\ NoteCall(o)
          /\ IF o = "ok" THEN Goto("ran_sushi") ELSE Goto("ran_except")
    /\ UNCHANGED <<stepVars, calleeVars, log, driver, quits, args, cycle, finished,
                   wait_duration, results, failures, cancelled, exit_code,
                   summary, debug>>

\* A guarded primary action of the Edge loop: the element is waited for and
\* clicked, popups and windows are closed; a TimeoutException or a
\* WebDriverException is logged as an error and the loop continues.
PrimaryAction(name, next) ==
    /\ \E o \in CallOutcomes, clickable \in BOOLEAN :
          /\ NoteCall(o)
          /\ IF o # "ok"
             THEN /\ log' = Append(log, "error: " \o name \o " click failed")
                  /\ failures' = Append(failures, [cycle |-> cycle, kind |-> "error"])
             ELSE IF ~clickable
                  THEN /\ log' = Append(log, "error: " \o name \o " timed out")
                       /\ failures' = Append(failures, [cycle |-> cycle, kind |-> "timeout"])
                  ELSE UNCHANGED <<log, failures>>
    /\ Goto(next)
    /\ UNCHANGED <<stepVars, calleeVars, driver, quits, args, cycle, finished,
                   wait_duration, results, cancelled, exit_code, summary, debug>>

\* lines 265-273: interact_with_sushi_card (lines 212-218) under try
ran_sushi == pc = "ran_sushi" /\ PrimaryAction("sushi card", "ran_home")

\* lines 275-282: back to the homepage; none guarded here
ran_home ==
    /\ pc = "ran_home"
    /\ \E o \in CallOutcomes :
          /\ NoteCall(o)
          /\ IF o = "ok" THEN Goto("ran_fav") ELSE Goto("ran_except")
    /\ UNCHANGED <<stepVars, calleeVars, log, driver, quits, args, cycle, finished,
                   wait_duration, results, failures, cancelled, exit_code,
                   summary, debug>>

\* lines 284-292: toggle_sushi_favourite (lines 221-227) under try
ran_fav == pc = "ran_fav" /\ PrimaryAction("favourite button", "ran_dwell")

\* lines 294-297: inspect_for_ad_elements; wait_duration =
\* random.uniform(min_wait, max_wait); time.sleep(wait_duration)
ran_dwell ==
    /\ pc = "ran_dwell"
    /\ \E o \in CallOutcomes :
          /\ NoteCall(o)
          /\ IF o = "ok"
             THEN /\ wait_duration' \in Uniform(args.min_wait, args.max_wait)
                  /\ Goto("ran_refresh")
             ELSE /\ wait_duration' = wait_duration
                  /\ Goto("ran_except")
    /\ UNCHANGED <<stepVars, calleeVars, log, driver, quits, args, cycle, finished,
                   results, failures, cancelled, exit_code, summary, debug>>

\* lines 299-305: driver.refresh(), wait_for_page_ready,
\* close_ad_popup_if_present, close_unexpected_windows,
\* inspect_for_ad_elements; none guarded here
ran_refresh ==
    /\ pc = "ran_refresh"
    /\ \E o \in CallOutcomes :
          /\ NoteCall(o)
          /\ IF o = "ok"
             THEN finished' = finished + 1 /\ Goto("ran_check")
             ELSE finished' = finished /\ Goto("ran_except")
    /\ UNCHANGED <<stepVars, calleeVars, log, driver, quits, args, cycle,
                   wait_duration, results, failures, cancelled, exit_code,
                   summary, debug>>

\* Mutant of BudgetReached: the loop runs one cycle more than the budget.
BudgetExceeded == max_iterations # 0 /\ cycle > max_iterations

\* Mutant of BudgetReached: a budget of None is compared like a number.
BudgetNoneCompared == cycle >= max_iterations

\* line 307: if max_iterations and iteration_counter >= max_iterations
BudgetReached == max_iterations # 0 /\ cycle >= max_iterations

\* lines 307-311: break, or iteration_counter += 1 and the next cycle (an
\* unbounded run is followed for MaxCycles cycles)
ran_check ==
    /\ pc = "ran_check"
    /\ IF BudgetReached
       THEN /\ log' = Append(log, "info: completed configured iteration count")
            /\ cycle' = cycle
            /\ Goto("ran_finally")
       ELSE /\ cycle < MaxCycles
            /\ cycle' = cycle + 1
            /\ log' = log
            /\ Goto("ran_load")
    /\ UNCHANGED <<stepVars, calleeVars, faultLog, session, driver, quits, args,
                   finished, wait_duration, results, failures, cancelled,
                   actedAfterFatal, exit_code, summary, debug>>

\* The statements of the try block of lines 248-311.
ran_try == {"ced_launch", "ced_configure", "ran_load", "ran_sushi", "ran_home",
            "ran_fav", "ran_dwell", "ran_refresh", "ran_check"}

\* lines 312-313: a KeyboardInterrupt raised at any statement of the try
\* block is caught and logged
ran_interrupt ==
    /\ pc \in ran_try
    /\ cancelled = <<>>
    /\ cancelled' = <<[at |-> pc, cycle |-> cycle, finished |-> finished]>>
    /\ log' = Append(log, "info: keyboard interrupt received")
    /\ Goto("ran_finally")
    /\ UNCHANGED <<stepVars, calleeVars, faultLog, session, driver, quits, args, cycle,
                   finished, wait_duration, results, failures,
                   actedAfterFatal, exit_code, summary, debug>>

\* lines 314-316: except WebDriverException: logger.exception(...); raise
ran_except ==
    /\ pc = "ran_except"
    /\ log' = Append(log, "error: WebDriver raised an exception")
    /\ exc' = "WebDriverException"
    /\ pc' = "ran_finally"
    /\ UNCHANGED <<stepVars, stack, ret, calleeVars, faultLog, session, driver, quits,
                   args, cycle, finished, wait_duration, results, failures,
                   cancelled, actedAfterFatal, exit_code, summary, debug>>

\* lines 317-320: finally: if driver is not None: driver.quit()
ran_finally ==
    /\ pc = "ran_finally"
    /\ IF driver THEN Quit ELSE UNCHANGED <<quits, session>>
    /\ Leave
    /\ UNCHANGED <<stepVars, calleeVars, log, faultLog, driver, args, cycle, finished,
                   wait_duration, results, failures, cancelled,
                   actedAfterFatal, exit_code, summary, debug>>

\* --------------------------------------------- managed_driver (Monetag)
\* Control moves to l with exception e pending and r as the value in hand.
Jump(l, e, r) == pc' = l /\ exc' = e /\ ret' = r /\ UNCHANGED stack

\* The first statement of the with block of each runner, and its main.
BodyLabel(c) ==
    CASE c = "perform_test_cycle" -> "ptc_loop"
      [] c = "exercise_navigation" -> "nav_setup"
      [] c = "exercise_games_button" -> "egb_setup"

MainLabel(c) ==
    CASE c = "perform_test_cycle" -> "mat_main"
      [] c = "exercise_navigation" -> "nav_main"
      [] c = "exercise_games_button" -> "play_main"

\* lines 198-201: driver = build_edge_driver(...); yield driver.
\* webdriver.Edge(...) (line 71) starts the session or raises.
md_enter ==
    /\ pc = "md_enter"
    /\ \E started \in BOOLEAN :
          IF started
          THEN /\ session' = "live"
               /\ driver' = TRUE
               /\ Goto(BodyLabel(call))
          ELSE /\ UNCHANGED <<session, driver>>
               /\ Jump("md_finally", "WebDriverException", ret)
    /\ UNCHANGED <<stepVars, calleeVars, log, faultLog, quits, args, cycle, finished,
                   wait_duration, results, failures, cancelled,
                   actedAfterFatal, exit_code, summary, debug>>

\* lines 202-204: finally: if driver: driver.quit(); the runner then returns
\* its results to main or lets the exception out to it
md_finally ==
    /\ pc = "md_finally"
    /\ IF driver THEN Quit ELSE UNCHANGED <<quits, session>>
    /\ Goto(MainLabel(call))
    /\ UNCHANGED <<stepVars, calleeVars, log, faultLog, driver, args, cycle, finished,
                   wait_duration, results, failures, cancelled,
                   actedAfterFatal, exit_code, summary, debug>>

\* The statements inside the with block of the three runners.
md_body == {"ptc_loop", "sv_view", "ptc_record", "ptc_refresh",
            "nav_setup", "nav_loop", "nav_click", "nav_observe", "nav_record",
            "nav_error", "nav_recover",
            "egb_setup", "egb_loop", "egb_prepare", "cgb_find", "cgb_click",
            "cgb_observe", "egb_record", "egb_home"}

\* A KeyboardInterrupt raised inside the with block: no handler of the
\* runners catches it (except Exception does not), the finally of
\* managed_driver runs.
md_interrupt ==
    /\ pc \in md_body
    /\ cancelled = <<>>
    /\ cancelled' = <<[at |-> pc, cycle |-> cycle, finished |-> finished]>>
    /\ Jump("md_finally", "KeyboardInterrupt", ret)
    /\ UNCHANGED <<stepVars, calleeVars, log, faultLog, session, driver, quits, args,
                   cycle, finished, wait_duration, results, failures,
                   actedAfterFatal, exit_code, summary, debug>>

\* ------------------------- perform_test_cycle, simulate_view, main (Monetag)
\* lines 49-53: the ViewResult dataclass ("none" stands for None)
ViewResult(number, ads_detected, error) ==
    [number |-> number, ads_detected |-> ads_detected, error |-> error]

\* line 215: for view_number in range(1, views + 1)
ptc_loop ==
    /\ pc = "ptc_loop"
    /\ IF cycle < args.iterations
       THEN cycle' = cycle + 1 /\ Goto("sv_view")
       ELSE cycle' = cycle /\ Goto("md_finally")
    /\ UNCHANGED <<stepVars, calleeVars, log, faultLog, session, driver, quits, args,
                   finished, wait_duration, results, failures, cancelled,
                   actedAfterFatal, exit_code, summary, debug>>

\* lines 182-192: simulate_view: driver.get, close_additional_windows,
\* dismiss_initial_overlay, wait_for_ads; any WebDriverException becomes the
\* error of the ViewResult
sv_view ==
    /\ pc = "sv_view"
    /\ \E o \in CallOutcomes, ads_visible \in BOOLEAN :
          /\ NoteCall(o)
          /\ IF o = "ok"
             THEN Jump("ptc_record", exc, ViewResult(cycle, ads_visible, "none"))
             ELSE Jump("ptc_record", exc, ViewResult(cycle, FALSE, "WebDriverException"))
    /\ UNCHANGED <<stepVars, calleeVars, log, driver, quits, args, cycle, finished,
                   wait_duration, results, failures, cancelled, exit_code,
                   summary, debug>>

\* Mutant of ptc_append: the record of a view replaces the list.
ptc_append_replaces == results' = <<ret>>

\* line 224: results.append(result)
ptc_append == results' = Append(results, ret)

\* lines 219-224: print the view's line; results.append(result)
ptc_record ==
    /\ pc = "ptc_record"
    /\ ptc_append
    /\ finished' = finished + 1
    /\ Goto("ptc_refresh")
    /\ UNCHANGED <<stepVars, calleeVars, log, faultLog, session, driver, quits, args,
                   cycle, wait_duration, failures, cancelled,
                   actedAfterFatal, exit_code, summary, debug>>

\* lines 226-227: if view_number != views: driver.refresh()   (not guarded)
ptc_refresh ==
    /\ pc = "ptc_refresh"
    /\ IF cycle # args.iterations
       THEN \E o \in CallOutcomes :
               /\ NoteCall(o)
               /\ IF o = "ok"
                  THEN Goto("ptc_loop")
                  ELSE Jump("md_finally", "WebDriverException", ret)
       ELSE Goto("ptc_loop") /\ UNCHANGED <<faultLog, session, actedAfterFatal>>
    /\ UNCHANGED <<stepVars, calleeVars, log, driver, quits, args, cycle, finished,
                   wait_duration, results, failures, cancelled, exit_code,
                   summary, debug>>

\* An exception other than WebDriverException leaves main.
MainRaises == exc \notin {"none", "WebDriverException"}

\* line 239: failures = [r for r in results if r.error or not r.ads_detected]
ViewFailures == SelectSeq(results, LAMBDA r : r.error # "none" \/ ~r.ads_detected)

\* lines 232-245: main: 1 on a WebDriverException ("Failed to initialise"),
\* 2 with the count of failed views, 0 when every view detected ads
mat_main ==
    /\ pc = "mat_main"
    /\ IF MainRaises
       THEN Raise(exc) /\ UNCHANGED <<exit_code, summary>>
       ELSE /\ Return(RetNone)
            /\ IF exc = "WebDriverException"
               THEN exit_code' = 1 /\ summary' = FALSE
               ELSE /\ exit_code' = IF ViewFailures # <<>> THEN 2 ELSE 0
                    /\ summary' = TRUE
    /\ UNCHANGED <<stepVars, calleeVars, log, faultLog, session, driver, quits, args,
                   cycle, finished, wait_duration, results, failures,
                   cancelled, actedAfterFatal, debug>>

\* --------------------------------- exercise_navigation, main (nav clicks)
\* lines 39-48: the ClickResult dataclass
ClickResult(iteration, ads_detected, visible, urls, error) ==
    [iteration |-> iteration, ads_detected |-> ads_detected,
     both_buttons_visible |-> visible, popup_urls |-> urls, error |-> error]

\* lines 75-81: driver.get(HOME_URL), current_window_handle,
\* prepare_main_view; none guarded
nav_setup ==
    /\ pc = "nav_setup"
    /\ \E o \in CallOutcomes :
          /\ NoteCall(o)
          /\ IF o = "ok"
             THEN Goto("nav_loop")
             ELSE Jump("md_finally", "WebDriverException", ret)
    /\ UNCHANGED <<stepVars, calleeVars, log, driver, quits, args, cycle, finished,
                   wait_duration, results, failures, cancelled, exit_code,
                   summary, debug>>

\* line 83: for iteration in range(1, iterations + 1)
nav_loop ==
    /\ pc = "nav_loop"
    /\ IF cycle < args.iterations
       THEN cycle' = cycle + 1 /\ Goto("nav_click")
       ELSE cycle' = cycle /\ Goto("md_finally")
    /\ UNCHANGED <<stepVars, calleeVars, log, faultLog, session, driver, quits, args,
                   finished, wait_duration, results, failures, cancelled,
                   actedAfterFatal, exit_code, summary, debug>>

\* lines 85-97: wait for the nav button to be clickable, read its href,
\* enumerate the windows, button.click(); any exception goes to line 177
nav_click ==
    /\ pc = "nav_click"
    /\ \E o \in CallOutcomes, clickable \in BOOLEAN :
          /\ NoteCall(o)
          /\ IF o # "ok"
             THEN /\ failures' = Append(failures, [cycle |-> cycle, kind |-> "error"])
                  /\ Jump("nav_error", "WebDriverException", ret)
             ELSE IF ~clickable
                  THEN /\ failures' = Append(failures, [cycle |-> cycle, kind |-> "timeout"])
                       /\ Jump("nav_error", "TimeoutException", ret)
                  ELSE failures' = failures /\ Goto("nav_observe")
    /\ UNCHANGED <<stepVars, calleeVars, log, driver, quits, args, cycle, finished,
                   wait_duration, results, cancelled, exit_code, summary, debug>>

\* lines 98-154: buttons visible, popups visited and closed, back to the main
\* window, reload and overlay retry, wait_for_ads; any exception goes to
\* line 177
nav_observe ==
    /\ pc = "nav_observe"
    /\ \E o \in CallOutcomes, found \in BOOLEAN, visible \in BOOLEAN :
          /\ NoteCall(o)
          /\ IF o = "ok"
             THEN Jump("nav_record", exc,
                       ClickResult(cycle, found \/ ~visible, visible, <<>>, "none"))
             ELSE Jump("nav_error", "WebDriverException", ret)
    /\ UNCHANGED <<stepVars, calleeVars, log, driver, quits, args, cycle, finished,
                   wait_duration, results, failures, cancelled, exit_code,
                   summary, debug>>

\* lines 156-176: results.append(ClickResult(...)); print the line
nav_record ==
    /\ pc = "nav_record"
    /\ results' = Append(results, ret)
    /\ finished' = finished + 1
    /\ Goto("nav_loop")
    /\ UNCHANGED <<stepVars, calleeVars, log, faultLog, session, driver, quits, args,
                   cycle, wait_duration, failures, cancelled,
                   actedAfterFatal, exit_code, summary, debug>>

\* Mutant of nav_error: the handler lets the exception out of the loop.
nav_error_aborts ==
    /\ pc = "nav_error"
    /\ results' = results
    /\ Jump("md_finally", exc, ret)
    /\ UNCHANGED <<stepVars, calleeVars, log, faultLog, session, driver, quits, args,
                   cycle, finished, wait_duration, failures, cancelled,
                   actedAfterFatal, exit_code, summary, debug>>

\* lines 177-189: except Exception: results.append(ClickResult(...,
\* error=str(exc))); print the line
nav_error ==
    /\ pc = "nav_error"
    /\ results' = Append(results, ClickResult(cycle, FALSE, FALSE, <<>>, exc))
    /\ Jump("nav_recover", "none", ret)
    /\ UNCHANGED <<stepVars, calleeVars, log, faultLog, session, driver, quits, args,
                   cycle, finished, wait_duration, failures, cancelled,
                   actedAfterFatal, exit_code, summary, debug>>

\* lines 191-195: still in the handler: switch back (suppressed),
\* driver.get(HOME_URL), prepare_main_view; not guarded
nav_recover ==
    /\ pc = "nav_recover"
    /\ \E o \in CallOutcomes :
          /\ NoteCall(o)
          /\ IF o = "ok"
             THEN finished' = finished + 1 /\ Goto("nav_loop")
             ELSE finished' = finished /\ Jump("md_finally", "WebDriverException", ret)
    /\ UNCHANGED <<stepVars, calleeVars, log, driver, quits, args, cycle,
                   wait_duration, results, failures, cancelled, exit_code,
                   summary, debug>>

\* lines 200-216: main: 1 on a WebDriverException ("Failed to initialise"),
\* else the error count or the detection count is printed and 0 returned
nav_main ==
    /\ pc = "nav_main"
    /\ IF MainRaises
       THEN Raise(exc) /\ UNCHANGED <<exit_code, summary>>
       ELSE /\ Return(RetNone)
            /\ IF exc = "WebDriverException"
               THEN exit_code' = 1 /\ summary' = FALSE
               ELSE exit_code' = 0 /\ summary' = TRUE
    /\ UNCHANGED <<stepVars, calleeVars, log, faultLog, session, driver, quits, args,
                   cycle, finished, wait_duration, results, failures,
                   cancelled, actedAfterFatal, debug>>

\* ------------ exercise_games_button, click_games_button, main (play button)
\* lines 48-56: the PlayAttemptResult dataclass
PlayAttemptResult(attempt, ads_detected, visible, urls, error, debug_notes) ==
    [attempt |-> attempt, ads_detected |-> ads_detected,
     buttons_visible |-> visible, popup_urls |-> urls, error |-> error,
     debug_notes |-> debug_notes]

\* lines 188-195: driver.get(HOME_URL), prepare_main_view,
\* current_window_handle; none guarded
egb_setup ==
    /\ pc = "egb_setup"
    /\ \E o \in CallOutcomes :
          /\ NoteCall(o)
          /\ IF o = "ok"
             THEN Goto("egb_loop")
             ELSE Jump("md_finally", "WebDriverException", ret)
    /\ UNCHANGED <<stepVars, calleeVars, log, driver, quits, args, cycle, finished,
                   wait_duration, results, failures, cancelled, exit_code,
                   summary, debug>>

\* lines 197-202: for attempt in range(1, attempts + 1)
egb_loop ==
    /\ pc = "egb_loop"
    /\ IF cycle < args.iterations
       THEN cycle' = cycle + 1 /\ Goto("egb_prepare")
       ELSE cycle' = cycle /\ Goto("md_finally")
    /\ UNCHANGED <<stepVars, calleeVars, log, faultLog, session, driver, quits, args,
                   finished, wait_duration, results, failures, cancelled,
                   actedAfterFatal, exit_code, summary, debug>>

\* line 204: prepare_main_view(driver, ...)   (not guarded)
egb_prepare ==
    /\ pc = "egb_prepare"
    /\ \E o \in CallOutcomes :
          /\ NoteCall(o)
          /\ IF o = "ok"
             THEN Goto("cgb_find")
             ELSE Jump("md_finally", "WebDriverException", ret)
    /\ UNCHANGED <<stepVars, calleeVars, log, driver, quits, args, cycle, finished,
                   wait_duration, results, failures, cancelled, exit_code,
                   summary, debug>>

\* lines 97-113: debug = []; find_first_visible absorbs every
\* WebDriverException and returns None when no locator shows the button; the
\* wait for is_enabled catches only TimeoutException
cgb_find ==
    /\ pc = "cgb_find"
    /\ debug' = <<>>
    /\ \E o \in CallOutcomes, clickable \in BOOLEAN :
          /\ NoteCall(o)
          /\ IF o = "dead" \/ (o = "ok" /\ ~clickable)
             THEN /\ failures' = Append(failures, [cycle |-> cycle, kind |-> "timeout"])
                  /\ Jump("egb_record", exc,
                          PlayAttemptResult(cycle, FALSE, FALSE, <<>>, "TimeoutException", <<>>))
             ELSE IF o = "ok"
                  THEN failures' = failures /\ Goto("cgb_click")
                  ELSE /\ failures' = failures
                       /\ Jump("md_finally", "WebDriverException", ret)
    /\ UNCHANGED <<stepVars, calleeVars, log, driver, quits, args, cycle, finished,
                   wait_duration, results, cancelled, exit_code, summary>>

\* lines 115-129: href and window_handles are read unguarded; a native click
\* that raises is noted in debug and replaced by a JS click, not guarded
cgb_click ==
    /\ pc = "cgb_click"
    /\ \E o \in CallOutcomes, site \in {"href", "click"} :
          /\ NoteCall(o)
          /\ (o = "dead") => (site = "href")
          /\ IF o = "ok"
             THEN Goto("cgb_observe") /\ UNCHANGED <<debug, failures>>
             ELSE IF site = "href"
                  THEN /\ Jump("md_finally", "WebDriverException", ret)
                       /\ UNCHANGED <<debug, failures>>
                  ELSE /\ debug' = Append(debug, "native click failed")
                       /\ failures' = Append(failures, [cycle |-> cycle, kind |-> "error"])
                       /\ IF o = "transient"
                          THEN Goto("cgb_observe")
                          ELSE Jump("md_finally", "WebDriverException", ret)
    /\ UNCHANGED <<stepVars, calleeVars, log, driver, quits, args, cycle, finished,
                   wait_duration, results, cancelled, exit_code, summary>>

\* lines 131-181: dismiss_initial_overlay, buttons visible, popups visited
\* and closed, back to the main window, wait_for_ads; the exceptions of
\* dismiss_initial_overlay, window_handles and wait_for_ads are not caught
cgb_observe ==
    /\ pc = "cgb_observe"
    /\ \E o \in CallOutcomes, found \in BOOLEAN, visible \in BOOLEAN :
          /\ NoteCall(o)
          /\ IF o = "ok"
             THEN Jump("egb_record", exc,
                       PlayAttemptResult(cycle, found \/ ~visible, visible, <<>>,
                                         "none", debug))
             ELSE Jump("md_finally", "WebDriverException", ret)
    /\ UNCHANGED <<stepVars, calleeVars, log, driver, quits, args, cycle, finished,
                   wait_duration, results, failures, cancelled, exit_code,
                   summary, debug>>

\* lines 205-216: results.append(result); print the line
egb_record ==
    /\ pc = "egb_record"
    /\ results' = Append(results, ret)
    /\ Goto("egb_home")
    /\ UNCHANGED <<stepVars, calleeVars, log, faultLog, session, driver, quits, args,
                   cycle, finished, wait_duration, failures, cancelled,
                   actedAfterFatal, exit_code, summary, debug>>

\* lines 218-221: driver.get(HOME_URL), prepare_main_view; not guarded
egb_home ==
    /\ pc = "egb_home"
    /\ \E o \in CallOutcomes :
          /\ NoteCall(o)
          /\ IF o = "ok"
             THEN finished' = finished + 1 /\ Goto("egb_loop")
             ELSE finished' = finished /\ Jump("md_finally", "WebDriverException", ret)
    /\ UNCHANGED <<stepVars, calleeVars, log, driver, quits, args, cycle,
                   wait_duration, results, failures, cancelled, exit_code,
                   summary, debug>>

\* lines 226-241: main: 1 on a WebDriverException ("Failed to initialise"),
\* else the counts of attempts, ad activity and errors are printed and 0
\* returned
play_main ==
    /\ pc = "play_main"
    /\ IF MainRaises
       THEN Raise(exc) /\ UNCHANGED <<exit_code, summary>>
       ELSE /\ Return(RetNone)
            /\ IF exc = "WebDriverException"
               THEN exit_code' = 1 /\ summary' = FALSE
               ELSE exit_code' = 0 /\ summary' = TRUE
    /\ UNCHANGED <<stepVars, calleeVars, log, faultLog, session, driver, quits, args,
                   cycle, finished, wait_duration, results, failures,
                   cancelled, actedAfterFatal, debug>>

\* ------------------------------------------------------------ specification
NoPage == present = {} /\ overlay = FALSE /\ closeSpans = <<>>

NoWait ==
    /\ now = 0
    /\ adsNow = {}
    /\ timeline = <<>>
    /\ timeout = 0
    /\ ad_locator = 0
    /\ end_time = 0

NoDocument == doc = <<>> /\ found_elements = <<>>

\* One function is called on a live session; no run loop is involved.
NoRun ==
    /\ session = "live"
    /\ driver = TRUE
    /\ quits = 0
    /\ args = [iterations |-> 0, min_wait |-> 0, max_wait |-> 0]
    /\ cycle = 0
    /\ finished = 0
    /\ wait_duration = 0
    /\ results = <<>>
    /\ failures = <<>>
    /\ cancelled = <<>>
    /\ actedAfterFatal = FALSE
    /\ exit_code = -1
    /\ summary = FALSE
    /\ debug = <<>>

\* No composed step and no click cycle is involved.
NoStep ==
    /\ caller = "none"
    /\ calls = <<>>
    /\ ready = TRUE
    /\ popup_urls = <<>>
    /\ adsDetected = FALSE
    /\ both_buttons_visible = FALSE

NoDismissLocals ==
    /\ locator = 0
    /\ before_handles = {}
    /\ new_handles = <<>>
    /\ buttons = <<>>
    /\ trace = <<>>

Reconcilers == {"close_unexpected_windows", "close_additional_windows"}

Dismissers == {"close_ad_popup_if_present", "dismiss_initial_overlay"}

Runners == {"run_ad_navigation_test", "perform_test_cycle",
            "exercise_navigation", "exercise_games_button"}

EntryLabel(c) ==
    CASE c = "close_unexpected_windows" -> "cuw_enumerate"
      [] c = "close_additional_windows" -> "caw_primary"
      [] c = "close_ad_popup_if_present" -> "cap_wait"
      [] c = "dismiss_initial_overlay" -> "dio_primary"
      [] c = "wait_for_ads" -> "wfa_start"
      [] c = "inspect_for_ad_elements" -> "iae_scripts"
      [] c = "wait_for_page_ready" -> "wpr_start"
      [] c = "run_ad_navigation_test" -> "ran_swap"
      [] c \in {"perform_test_cycle", "exercise_navigation",
                "exercise_games_button"} -> "md_enter"

Locators(c) ==
    IF c = "close_ad_popup_if_present"
    THEN Range(popup_locators)
    ELSE Range(CLOSE_BUTTON_LOCATORS)

SeqsUpTo(S, n) == UNION {[1..m -> S] : m \in 0..n}

\* ------------------------------------------------------- composed steps
\* A step of a tester calls the functions above one after the other.  A
\* call pushes its return label, enters the function with fresh locals and
\* is noted in `calls` with the windows, the focus, the main handle and the
\* value in hand at that moment.
CallRecord(fn) ==
    [fn |-> fn, handles |-> handles, focus |-> focus, main |-> main_handle,
     ret |-> ret]

Invoke(fn, back) ==
    /\ call' = fn
    /\ pc' = EntryLabel(fn)
    /\ stack' = <<back>> \o stack
    /\ calls' = Append(calls, CallRecord(fn))
    /\ locator' = 1
    /\ trace' = <<>>
    /\ UNCHANGED <<exc, ret>>

\* The window closer is called, and called again on what it returned (as
\* lines 261 and 268 of the Edge loop pass main_handle on), unless the
\* first call raised.
rw_call ==
    /\ pc = "rw_call"
    /\ IF Len(calls) < 2 /\ exc = "none"
       THEN Invoke(call, "rw_call")
       ELSE /\ pc' = Head(stack)
            /\ stack' = Tail(stack)
            /\ UNCHANGED <<exc, ret, call, calls, locator, trace>>
    /\ UNCHANGED <<runVars, winVars, reconVars, pageVars, before_handles,
                   new_handles, buttons, waitVars, inspectVars, log, faultLog,
                   entry, caller, ready, popup_urls, adsDetected,
                   both_buttons_visible>>

\* --------------------------------------- a click cycle (nav and play testers)
\* One iteration of exercise_navigation (monetag_nav_click_tester.py, lines
\* 84-195) and one call of click_games_button (monetag_play_button_tester.py,
\* lines 97-181), statement by statement on the session's windows.  `call`
\* names the function; the address of window h is h.
ckIdle == <<call, caller, calls, ready, main_handle, primary_handle, present,
            overlay, closeSpans, locator, buttons, now, adsNow, timeline,
            timeout, ad_locator, end_time, doc, found_elements, log, entry,
            trace, session, driver, quits, args, cycle, finished,
            wait_duration, failures, cancelled, actedAfterFatal, exit_code,
            summary>>

ckLocals == <<pending, handle, before_handles, new_handles, debug, popup_urls,
              adsDetected, both_buttons_visible>>

\* An exception outside the popup loop: the except Exception of line 177
\* takes it in exercise_navigation; click_games_button lets it out.
ckFail(e) ==
    IF call = "exercise_navigation" THEN Jump("ck_error", e, ret) ELSE Raise(e)

\* nav lines 91-94: wait for the button to be clickable, read its href;
\* play lines 98-115: debug = [], find_first_visible and the wait for
\* is_enabled (a TimeoutException returns the error record), read the href
ck_find ==
    /\ pc = "ck_find"
    /\ debug' = <<>>
    /\ \E fault \in FaultChoice, clickable \in BOOLEAN :
          /\ NoteFault(fault, 0)
          /\ IF WindowCallFails(fault)
             THEN ckFail("WebDriverException") /\ UNCHANGED results
             ELSE IF clickable
                  THEN Goto("ck_before") /\ UNCHANGED results
                  ELSE IF call = "exercise_navigation"
                       THEN ckFail("TimeoutException") /\ UNCHANGED results
                       ELSE /\ results' = Append(results,
                                   PlayAttemptResult(cycle, FALSE, FALSE, <<>>,
                                                     "TimeoutException", <<>>))
                            /\ Return(RetNone)
    /\ UNCHANGED <<ckIdle, winVars, pending, handle, before_handles, new_handles,
                   popup_urls, adsDetected, both_buttons_visible>>

\* nav line 96, play line 123: before_handles = set(driver.window_handles)
ck_before ==
    /\ pc = "ck_before"
    /\ \E fault \in FaultChoice :
          /\ NoteFault(fault, 0)
          /\ IF SessionCallFails(fault)
             THEN ckFail("WebDriverException") /\ UNCHANGED before_handles
             ELSE before_handles' = Range(handles) /\ Goto("ck_click")
    /\ UNCHANGED <<ckIdle, winVars, pending, handle, new_handles, debug, results,
                   popup_urls, adsDetected, both_buttons_visible>>

\* nav line 97: button.click(); play lines 125-129: button.click(), on a
\* WebDriverException a debug note and a script click (not guarded).  A
\* click that lands may open windows.
ck_click ==
    /\ pc = "ck_click"
    /\ \E fault \in FaultChoice, k \in 0..MaxPopups :
          /\ NoteFault(fault, 0)
          /\ IF ~IsOpen(focus)
             THEN ckFail("WebDriverException") /\ UNCHANGED <<winVars, debug>>
             ELSE IF ~fault
                  THEN ClickLands(k) /\ Goto("ck_overlay") /\ UNCHANGED debug
                  ELSE IF call = "exercise_navigation"
                       THEN ckFail("WebDriverException") /\ UNCHANGED <<winVars, debug>>
                       ELSE /\ debug' = Append(debug, "native click failed")
                            /\ ClickLands(k)
                            /\ Goto("ck_overlay")
    /\ UNCHANGED <<ckIdle, pending, handle, before_handles, new_handles, results,
                   popup_urls, adsDetected, both_buttons_visible>>

\* play line 133: dismiss_initial_overlay(driver, ...) (its exceptions are
\* not caught; it leaves focus where it was); nav has no such statement
ck_overlay ==
    /\ pc = "ck_overlay"
    /\ IF call = "exercise_navigation"
       THEN Goto("ck_visible") /\ UNCHANGED faultLog
       ELSE \E fault \in FaultChoice :
               /\ NoteFault(fault, 0)
               /\ IF fault
                  THEN ckFail("WebDriverException")
                  ELSE Goto("ck_visible")
    /\ UNCHANGED <<ckIdle, winVars, ckLocals, results>>

\* nav lines 100-107: both_buttons_visible = are_both_buttons_visible(driver)
\* (only a TimeoutException is caught there); popup_urls = [],
\* ads_detected = False, debug_notes = [].  play lines 135-139:
\* are_nav_buttons_visible absorbs every WebDriverException.
ck_visible ==
    /\ pc = "ck_visible"
    /\ \E fault \in FaultChoice, visible \in BOOLEAN :
          /\ NoteFault(fault, 0)
          /\ IF WindowCallFails(fault)
             THEN IF call = "exercise_navigation"
                  THEN /\ ckFail("WebDriverException")
                       /\ UNCHANGED <<both_buttons_visible, popup_urls, adsDetected>>
                  ELSE /\ both_buttons_visible' = FALSE
                       /\ popup_urls' = <<>>
                       /\ adsDetected' = FALSE
                       /\ Goto("ck_after")
             ELSE /\ both_buttons_visible' = visible
                  /\ popup_urls' = <<>>
                  /\ adsDetected' = FALSE
                  /\ Goto("ck_after")
    /\ UNCHANGED <<ckIdle, winVars, pending, handle, before_handles, new_handles,
                   debug, results>>

\* nav lines 109-112, play lines 141-144: after_handles =
\* set(driver.window_handles); new_handles = list(after - before); a note
ck_after ==
    /\ pc = "ck_after"
    /\ \E fault \in FaultChoice :
          /\ NoteFault(fault, 0)
          /\ IF SessionCallFails(fault)
             THEN /\ ckFail("WebDriverException")
                  /\ UNCHANGED <<new_handles, pending, debug>>
             ELSE /\ new_handles' \in Perms(Range(handles) \ before_handles)
                  /\ pending' = new_handles'
                  /\ debug' = IF new_handles' # <<>>
                              THEN Append(debug, "new handles") ELSE debug
                  /\ Goto("ck_loop")
    /\ UNCHANGED <<ckIdle, winVars, handle, before_handles, results, popup_urls,
                   adsDetected, both_buttons_visible>>

\* nav line 114, play line 146: for handle in new_handles
ck_loop ==
    /\ pc = "ck_loop"
    /\ IF pending = <<>>
       THEN Goto("ck_back") /\ UNCHANGED <<pending, handle>>
       ELSE handle' = Head(pending) /\ pending' = Tail(pending) /\ Goto("ck_switch")
    /\ UNCHANGED <<ckIdle, winVars, before_handles, new_handles, debug, results,
                   popup_urls, adsDetected, both_buttons_visible, faultLog>>

\* nav lines 123-124, play lines 155-156: except (TimeoutException,
\* WebDriverException): a debug note; the finally clause comes next
ck_except == debug' = Append(debug, "popup error") /\ Goto("ck_close")

\* nav line 116, play line 148: driver.switch_to.window(handle)
ck_switch ==
    /\ pc = "ck_switch"
    /\ \E fault \in FaultChoice :
          /\ NoteFault(fault, handle)
          /\ IF SwitchFails(fault, handle)
             THEN ck_except /\ UNCHANGED focus
             ELSE focus' = handle /\ Goto("ck_url") /\ UNCHANGED debug
    /\ UNCHANGED <<ckIdle, handles, opened, pending, handle, before_handles,
                   new_handles, results, popup_urls, adsDetected,
                   both_buttons_visible>>

\* nav lines 117-119, play lines 149-151: print driver.current_url, sleep,
\* popup_urls.append(driver.current_url)
ck_url ==
    /\ pc = "ck_url"
    /\ \E fault \in FaultChoice :
          /\ NoteFault(fault, handle)
          /\ IF WindowCallFails(fault)
             THEN ck_except /\ UNCHANGED popup_urls
             ELSE /\ popup_urls' = Append(popup_urls, focus)
                  /\ Goto("ck_ads")
                  /\ UNCHANGED debug
    /\ UNCHANGED <<ckIdle, winVars, pending, handle, before_handles, new_handles,
                   results, adsDetected, both_buttons_visible>>

\* nav lines 120-122, play lines 152-154: if wait_for_ads(driver, timeout=3):
\* ads_detected = True and a note
ck_ads ==
    /\ pc = "ck_ads"
    /\ \E fault \in FaultChoice, found \in BOOLEAN :
          /\ NoteFault(fault, handle)
          /\ IF WindowCallFails(fault)
             THEN ck_except /\ UNCHANGED adsDetected
             ELSE /\ adsDetected' = (adsDetected \/ found)
                  /\ debug' = IF found THEN Append(debug, "ads in popup") ELSE debug
                  /\ Goto("ck_close")
    /\ UNCHANGED <<ckIdle, winVars, pending, handle, before_handles, new_handles,
                   results, popup_urls, both_buttons_visible>>

\* nav lines 125-127, play lines 157-159: finally: with
\* suppress(WebDriverException): driver.close()
ck_close ==
    /\ pc = "ck_close"
    /\ \E fault \in FaultChoice :
          /\ NoteFault(fault, handle)
          /\ IF WindowCallFails(fault)
             THEN UNCHANGED winVars
             ELSE CloseWindow
    /\ Goto("ck_loop")
    /\ UNCHANGED <<ckIdle, ckLocals, results>>

\* nav lines 129-130, play lines 161-162: with suppress(WebDriverException):
\* driver.switch_to.window(main_handle)
ck_switch_main == focus' = main_handle

ck_back ==
    /\ pc = "ck_back"
    /\ \E fault \in FaultChoice :
          /\ NoteFault(fault, 0)
          /\ IF SwitchFails(fault, main_handle)
             THEN UNCHANGED focus
             ELSE ck_switch_main
    /\ Goto("ck_post")
    /\ UNCHANGED <<ckIdle, handles, opened, ckLocals, results>>

\* nav lines 132-140: if new_handles: a note, driver.get(HOME_URL),
\* prepare_main_view (close_additional_windows leaves only the focused
\* window), both_buttons_visible = are_both_buttons_visible(driver, 4).
\* play lines 164-168: two notes.
ck_post ==
    /\ pc = "ck_post"
    /\ IF call = "exercise_navigation" /\ new_handles # <<>>
       THEN \E fault \in FaultChoice, visible \in BOOLEAN :
               /\ NoteFault(fault, 0)
               /\ IF WindowCallFails(fault)
                  THEN /\ ckFail("WebDriverException")
                       /\ UNCHANGED <<handles, both_buttons_visible, debug>>
                  ELSE /\ handles' = <<focus>>
                       /\ both_buttons_visible' = visible
                       /\ debug' = Append(debug, "returned to main handle")
                       /\ Goto("ck_retry")
       ELSE /\ debug' = IF new_handles # <<>>
                        THEN Append(debug, "returned to main window") ELSE debug
            /\ Goto("ck_retry")
            /\ UNCHANGED <<handles, both_buttons_visible, faultLog>>
    /\ UNCHANGED <<ckIdle, focus, opened, pending, handle, before_handles,
                   new_handles, results, popup_urls, adsDetected>>

\* nav lines 142-148: if not both_buttons_visible: a note,
\* dismiss_initial_overlay, both_buttons_visible =
\* are_both_buttons_visible(driver, 3).  play lines 167-168: a note.
ck_retry ==
    /\ pc = "ck_retry"
    /\ IF call = "exercise_navigation" /\ ~both_buttons_visible
       THEN \E fault \in FaultChoice, visible \in BOOLEAN :
               /\ NoteFault(fault, 0)
               /\ IF WindowCallFails(fault)
                  THEN /\ ckFail("WebDriverException")
                       /\ UNCHANGED <<both_buttons_visible, debug>>
                  ELSE /\ both_buttons_visible' = visible
                       /\ debug' = Append(debug, "buttons missing, retried")
                       /\ Goto("ck_final")
       ELSE /\ debug' = IF ~both_buttons_visible
                        THEN Append(debug, "nav buttons missing") ELSE debug
            /\ Goto("ck_final")
            /\ UNCHANGED <<both_buttons_visible, faultLog>>
    /\ UNCHANGED <<ckIdle, winVars, pending, handle, before_handles, new_handles,
                   results, popup_urls, adsDetected>>

\* The value the record is given for ads_detected does not look at the
\* buttons (mutant of RecordedAds).
RecordedAdsOnlyFound == adsDetected

\* nav line 150: ads_detected = ads_detected or not both_buttons_visible;
\* play line 177: ads_detected or bool(new_handles) or not both_visible
RecordedAds ==
    IF call = "exercise_navigation"
    THEN adsDetected \/ ~both_buttons_visible
    ELSE adsDetected \/ new_handles # <<>> \/ ~both_buttons_visible

\* nav lines 150-154: ads_detected = ads_detected or not
\* both_buttons_visible; if not ads_detected: wait_for_ads(driver, 2).
\* play lines 170-172: if not ads_detected and wait_for_ads(driver, 2).
ck_final ==
    /\ pc = "ck_final"
    /\ LET before == IF call = "exercise_navigation" THEN RecordedAds ELSE adsDetected
       IN  IF before
           THEN adsDetected' = before /\ Goto("ck_record") /\ UNCHANGED <<debug, faultLog>>
           ELSE \E fault \in FaultChoice, found \in BOOLEAN :
                   /\ NoteFault(fault, 0)
                   /\ IF WindowCallFails(fault)
                      THEN ckFail("WebDriverException") /\ UNCHANGED <<adsDetected, debug>>
                      ELSE /\ adsDetected' = found
                           /\ debug' = IF found THEN Append(debug, "ads on main page")
                                       ELSE debug
                           /\ Goto("ck_record")
    /\ UNCHANGED <<ckIdle, winVars, pending, handle, before_handles, new_handles,
                   results, popup_urls, both_buttons_visible>>

\* nav lines 156-176: results.append(ClickResult(...)); play lines 174-181:
\* return PlayAttemptResult(...), appended on line 206
ck_record ==
    /\ pc = "ck_record"
    /\ results' = Append(results,
          IF call = "exercise_navigation"
          THEN ClickResult(cycle, adsDetected, both_buttons_visible, popup_urls, "none")
          ELSE PlayAttemptResult(cycle, RecordedAds, both_buttons_visible,
                                 popup_urls, "none", debug))
    /\ Return(RetNone)
    /\ UNCHANGED <<ckIdle, winVars, ckLocals, faultLog>>

\* nav lines 177-189: except Exception: results.append(ClickResult(...,
\* error=str(exc)))
ck_error ==
    /\ pc = "ck_error"
    /\ results' = Append(results, ClickResult(cycle, FALSE, FALSE, <<>>, exc))
    /\ Jump("ck_recover", "none", ret)
    /\ UNCHANGED <<ckIdle, winVars, ckLocals, faultLog>>

\* nav lines 191-195: with suppress: driver.switch_to.window(main_handle);
\* driver.get(HOME_URL); prepare_main_view(...)   (the last two not guarded)
ck_recover ==
    /\ pc = "ck_recover"
    /\ \E fault \in FaultChoice :
          /\ NoteFault(fault, 0)
          /\ IF IsOpen(main_handle)
             THEN /\ focus' = main_handle
                  /\ IF fault
                     THEN Raise("WebDriverException") /\ UNCHANGED handles
                     ELSE handles' = <<main_handle>> /\ Return(RetNone)
             ELSE /\ UNCHANGED <<focus, handles>>
                  /\ IF fault \/ ~IsOpen(focus)
                     THEN Raise("WebDriverException")
                     ELSE Return(RetNone)
    /\ UNCHANGED <<ckIdle, opened, ckLocals, results>>

\* ------------------------------------------- wait_for_page_ready (Edge)
\* lines 123-124: WebDriverWait(driver, timeout).until(...) takes its
\* deadline
wpr_start ==
    /\ pc = "wpr_start"
    /\ end_time' = UntilDeadline
    /\ Goto("wpr_poll")
    /\ UNCHANGED <<stepVars, runVars, call, winVars, reconVars, pageVars, dismissVars,
                   now, adsNow, timeline, timeout, ad_locator, inspectVars, log,
                   faultLog, entry, trace>>

\* line 125: web_driver.execute_script("return document.readyState") ==
\* "complete", one evaluation inside until(); a WebDriverException is not
\* caught by line 127
wpr_poll ==
    /\ pc = "wpr_poll"
    /\ \E fault \in FaultChoice :
          /\ NoteFault(fault, 0)
          /\ IF WindowCallFails(fault)
             THEN Raise("WebDriverException")
             ELSE IF ready
                  THEN Return(RetNone)
                  ELSE Goto("wpr_sleep")
    /\ UNCHANGED <<stepVars, runVars, call, winVars, reconVars, pageVars, dismissVars,
                   waitVars, inspectVars, log, entry, trace>>

\* Mutant of wpr_timed_out: the TimeoutException is not caught.
wpr_timed_out_raises == log' = log /\ Raise("TimeoutException")

\* lines 127-129: except TimeoutException: logger.warning(...)
wpr_timed_out ==
    /\ log' = Append(log, "warning: timed out waiting for readyState complete")
    /\ Return(RetNone)

\* line 124: time.sleep(poll) inside until(), then the deadline test; the
\* document may have finished loading meanwhile
wpr_sleep ==
    /\ pc = "wpr_sleep"
    /\ now' = now + 1
    /\ ready' \in {ready, TRUE}
    /\ IF now' < end_time
       THEN Goto("wpr_poll") /\ UNCHANGED log
       ELSE wpr_timed_out
    /\ UNCHANGED <<runVars, call, winVars, reconVars, pageVars, dismissVars,
                   adsNow, timeline, timeout, ad_locator, end_time, inspectVars,
                   faultLog, entry, trace, caller, calls, popup_urls, adsDetected,
                   both_buttons_visible>>

\* --------------------------------------------- the steps of a cycle (Edge)
\* Lines 255-292 of run_ad_navigation_test, statement by statement, with the
\* functions it calls run as modelled above: load, Sushi card, homepage,
\* favourite button.
stRest == <<runVars, primary_handle, pending, handle, pageVars, before_handles,
            new_handles, buttons, now, adsNow, timeline, timeout, ad_locator,
            end_time, inspectVars, entry, caller, popup_urls, adsDetected,
            both_buttons_visible>>

\* A statement that calls fn; an exception left by the statement before it
\* propagates instead.
StepCall(fn, back) ==
    /\ IF exc # "none"
       THEN Raise(exc) /\ UNCHANGED <<call, calls, locator, trace>>
       ELSE Invoke(fn, back)
    /\ UNCHANGED <<stRest, winVars, main_handle, log, faultLog, ready>>

\* lines 255, 276: driver.get(url); the document may still be loading
StepGet(next) ==
    /\ IF exc # "none"
       THEN Raise(exc) /\ UNCHANGED <<ready, calls, faultLog>>
       ELSE \E fault \in FaultChoice, loaded \in BOOLEAN :
               /\ NoteFault(fault, 0)
               /\ IF WindowCallFails(fault)
                  THEN Raise("WebDriverException") /\ UNCHANGED <<ready, calls>>
                  ELSE /\ ready' = loaded
                       /\ calls' = Append(calls, CallRecord("driver.get"))
                       /\ Goto(next)
    /\ UNCHANGED <<stRest, call, winVars, main_handle, locator, trace, log>>

\* lines 257, 277: main_handle = driver.current_window_handle
StepHandle(next) ==
    /\ \E fault \in FaultChoice :
          /\ NoteFault(fault, 0)
          /\ IF WindowCallFails(fault)
             THEN Raise("WebDriverException") /\ UNCHANGED main_handle
             ELSE main_handle' = focus /\ Goto(next)
    /\ UNCHANGED <<stRest, call, winVars, locator, trace, log, calls, ready>>

el_get == pc = "el_get" /\ StepGet("el_handle")

el_handle == pc = "el_handle" /\ StepHandle("el_ready")

\* line 258: wait_for_page_ready(driver, logger=logger)
el_ready == pc = "el_ready" /\ StepCall("wait_for_page_ready", "el_dismiss")

\* line 260: close_ad_popup_if_present(driver, logger)
el_dismiss == pc = "el_dismiss" /\ StepCall("close_ad_popup_if_present", "el_reconcile")

\* line 261: main_handle = close_unexpected_windows(driver, main_handle, logger)
el_reconcile == pc = "el_reconcile" /\ StepCall("close_unexpected_windows", "el_inspect")

\* line 263: inspect_for_ad_elements(driver, logger)
el_inspect == pc = "el_inspect" /\ StepCall("inspect_for_ad_elements", "pa_sushi")

\* lines 266, 285: the primary action (interact_with_sushi_card lines
\* 212-218, toggle_sushi_favourite lines 221-227): wait for the element to
\* be clickable, scroll to it, click it.  A TimeoutException or a
\* WebDriverException goes to the except clauses of lines 270-273 / 289-292:
\* an error is logged and the statements after the try block come next.
PrimaryStep(fn, name, settle, after) ==
    /\ IF exc # "none"
       THEN Raise(exc) /\ UNCHANGED <<winVars, calls, log, faultLog>>
       ELSE \E fault \in FaultChoice, clickable \in BOOLEAN, k \in 0..MaxPopups :
               /\ NoteFault(fault, 0)
               /\ calls' = Append(calls, CallRecord(fn))
               /\ IF WindowCallFails(fault)
                  THEN /\ log' = Append(log, "error: " \o name \o " click failed")
                       /\ Goto(after)
                       /\ UNCHANGED winVars
                  ELSE IF ~clickable
                       THEN /\ log' = Append(log, "error: " \o name \o " timed out")
                            /\ Goto(after)
                            /\ UNCHANGED winVars
                       ELSE /\ log' = Append(log, "info: clicked " \o name)
                            /\ ClickLands(k)
                            /\ Goto(settle)
    /\ UNCHANGED <<stRest, call, main_handle, locator, trace, ready>>

\* lines 267, 286: time.sleep(2) / time.sleep(1)
SettleStep(next) ==
    /\ calls' = Append(calls, CallRecord("time.sleep"))
    /\ Goto(next)
    /\ UNCHANGED <<stRest, call, winVars, main_handle, locator, trace, log,
                   faultLog, ready>>

\* lines 268-269, 287-288, inside the try block: a call of fn
TryCall(fn, back) ==
    /\ Invoke(fn, back)
    /\ UNCHANGED <<stRest, winVars, main_handle, log, faultLog, ready>>

\* The end of the try block: a WebDriverException of
\* close_unexpected_windows is caught by lines 272 / 291 as well
TryEnd(name, after) ==
    /\ pc' = after
    /\ exc' = "none"
    /\ log' = IF exc # "none"
              THEN Append(log, "error: " \o name \o " click failed") ELSE log
    /\ UNCHANGED <<stack, ret>>
    /\ UNCHANGED <<stRest, call, winVars, main_handle, locator, trace, faultLog,
                   calls, ready>>

pa_sushi ==
    /\ pc = "pa_sushi"
    /\ PrimaryStep("interact_with_sushi_card", "sushi card", "sa_settle", "st_end")

sa_settle == pc = "sa_settle" /\ SettleStep("sa_dismiss")

sa_dismiss == pc = "sa_dismiss" /\ TryCall("close_ad_popup_if_present", "sa_reconcile")

sa_reconcile == pc = "sa_reconcile" /\ TryCall("close_unexpected_windows", "sa_end")

sa_end == pc = "sa_end" /\ TryEnd("sushi card", "st_end")

\* lines 275-282: back to the homepage
eh_get == pc = "eh_get" /\ StepGet("eh_handle")

eh_handle == pc = "eh_handle" /\ StepHandle("eh_ready")

eh_ready == pc = "eh_ready" /\ StepCall("wait_for_page_ready", "eh_dismiss")

eh_dismiss == pc = "eh_dismiss" /\ StepCall("close_ad_popup_if_present", "eh_reconcile")

eh_reconcile == pc = "eh_reconcile" /\ StepCall("close_unexpected_windows", "pa_fav")

pa_fav ==
    /\ pc = "pa_fav"
    /\ PrimaryStep("toggle_sushi_favourite", "favourite button", "fa_settle", "st_end")

fa_settle == pc = "fa_settle" /\ SettleStep("fa_dismiss")

fa_dismiss == pc = "fa_dismiss" /\ TryCall("close_ad_popup_if_present", "fa_reconcile")

fa_reconcile == pc = "fa_reconcile" /\ TryCall("close_unexpected_windows", "fa_end")

fa_end == pc = "fa_end" /\ TryEnd("favourite button", "st_end")

\* The step is over: the statements after it are not followed here (the
\* Sushi card step of lines 255-273 and the homepage and favourite step of
\* lines 275-292 are followed one at a time).
st_end ==
    /\ pc = "st_end"
    /\ Leave
    /\ UNCHANGED <<stRest, call, winVars, main_handle, locator, trace, log,
                   faultLog, calls, ready>>

\* ------------------------------- prepare_main_view, simulate_view (Monetag)
\* prepare_main_view, nav lines 67-68 and play lines 89-90:
\* close_additional_windows(driver), then dismiss_initial_overlay(driver, ...)
pm_reconcile == pc = "pm_reconcile" /\ StepCall("close_additional_windows", "pm_dismiss")

pm_dismiss == pc = "pm_dismiss" /\ StepCall("dismiss_initial_overlay", "st_end")

\* simulate_view line 183: driver.get(url); every WebDriverException of
\* lines 183-189 is caught by line 191
smv_get ==
    /\ pc = "smv_get"
    /\ \E fault \in FaultChoice :
          /\ NoteFault(fault, 0)
          /\ IF WindowCallFails(fault)
             THEN Jump("smv_return", "WebDriverException", ret) /\ UNCHANGED calls
             ELSE /\ calls' = Append(calls, CallRecord("driver.get"))
                  /\ Goto("smv_reconcile")
    /\ UNCHANGED <<stRest, call, winVars, main_handle, locator, trace, log, ready>>

\* A call inside the try block of simulate_view.
ViewCall(fn, back) ==
    /\ IF exc # "none"
       THEN Jump("smv_return", exc, ret) /\ UNCHANGED <<call, calls, locator, trace>>
       ELSE Invoke(fn, back)
    /\ UNCHANGED <<stRest, winVars, main_handle, log, faultLog, ready>>

\* line 185: close_additional_windows(driver)
smv_reconcile == pc = "smv_reconcile" /\ ViewCall("close_additional_windows", "smv_dismiss")

\* line 186: dismiss_initial_overlay(driver, ...)
smv_dismiss == pc = "smv_dismiss" /\ ViewCall("dismiss_initial_overlay", "smv_wait")

\* line 187: ads_visible = wait_for_ads(driver)
smv_wait == pc = "smv_wait" /\ ViewCall("wait_for_ads", "smv_return")

\* lines 190-192: return ViewResult(...), with the error when one was caught
smv_return ==
    /\ pc = "smv_return"
    /\ pc' = Head(stack)
    /\ stack' = Tail(stack)
    /\ exc' = "none"
    /\ ret' = IF exc = "none"
              THEN ViewResult(cycle, ret = RetBool(TRUE), "none")
              ELSE ViewResult(cycle, FALSE, exc)
    /\ UNCHANGED <<stRest, call, winVars, main_handle, locator, trace, log,
                   faultLog, calls, ready>>

\* ------------------------------------------------------- initial states
\* A call of a window closer: any non-empty window list in any enumeration
\* order, focus and the caller's main_handle on any handle, open or closed.
InitReconcile ==
    /\ call \in Reconcilers
    /\ pc = EntryLabel(call)
    /\ stack = <<"done">>
    /\ exc = "none"
    /\ ret = RetNone
    /\ opened = MaxWindows
    /\ handles \in InjSeqs(1..MaxWindows) \ {<<>>}
    /\ focus \in 1..MaxWindows
    /\ main_handle \in (IF call = "close_unexpected_windows" THEN 1..MaxWindows ELSE {0})
    /\ primary_handle = 0
    /\ pending = <<>>
    /\ handle = 0
    /\ log = <<>>
    /\ faultLog = <<>>
    /\ NoPage
    /\ NoDismissLocals
    /\ NoWait
    /\ NoDocument
    /\ NoRun
    /\ NoStep
    /\ entry = [handles |-> handles, focus |-> focus, main |-> main_handle, overlay |-> overlay]

\* A call of an overlay dismisser: one or two windows, focus on an open or
\* a closed one, any page.
InitDismiss ==
    /\ call \in Dismissers
    /\ pc = EntryLabel(call)
    /\ stack = <<"done">>
    /\ exc = "none"
    /\ ret = RetNone
    /\ opened = 2
    /\ handles \in {<<1>>, <<1, 2>>}
    /\ focus \in 1..2
    /\ main_handle = 0
    /\ primary_handle = 0
    /\ pending = <<>>
    /\ handle = 0
    /\ log = <<>>
    /\ faultLog = <<>>
    /\ present \in SUBSET Locators(call)
    /\ overlay \in BOOLEAN
    /\ closeSpans \in (IF call = "close_ad_popup_if_present"
                       THEN SeqsUpTo({"shown", "hidden"}, MaxSpans) ELSE {<<>>})
    /\ locator = 1
    /\ before_handles = {}
    /\ new_handles = <<>>
    /\ buttons = <<>>
    /\ trace = <<>>
    /\ NoWait
    /\ NoDocument
    /\ NoRun
    /\ NoStep
    /\ entry = [handles |-> handles, focus |-> focus, main |-> 0, overlay |-> overlay]

\* A call of wait_for_ads(driver, timeout): one open, focused window; ad
\* elements come and go from tick to tick.
InitWait ==
    /\ call = "wait_for_ads"
    /\ pc = EntryLabel(call)
    /\ stack = <<"done">>
    /\ exc = "none"
    /\ ret = RetNone
    /\ opened = 1
    /\ handles = <<1>>
    /\ focus = 1
    /\ main_handle = 0
    /\ primary_handle = 0
    /\ pending = <<>>
    /\ handle = 0
    /\ log = <<>>
    /\ faultLog = <<>>
    /\ NoPage
    /\ NoDismissLocals
    /\ now = 0
    /\ adsNow \in SUBSET Range(AD_IDENTIFIERS)
    /\ timeline = <<adsNow>>
    /\ timeout \in 1..MaxTimeout
    /\ ad_locator = 0
    /\ end_time = 0
    /\ NoDocument
    /\ NoRun
    /\ NoStep
    /\ entry = [handles |-> handles, focus |-> focus, main |-> 0, overlay |-> overlay]

\* A run of DescriptorLimit characters without any keyword.
Padding == [i \in 1..DescriptorLimit |-> "x"]

\* The src attributes and the outer markups the model's tags are drawn from:
\* no src, "AdS", "ad", "xDoubleClick", a long address whose only keyword
\* comes after the first DescriptorLimit characters, a long address that
\* starts with its keyword; "<ads>", "<p>".
SrcPool ==
    { <<>>,
      <<"A", "d", "S">>,
      <<"a", "d">>,
      <<"x", "D", "o", "u", "b", "l", "e", "C", "l", "i", "c", "k">>,
      Padding \o <<"A", "d", "s">>,
      <<"a", "d", "s">> \o Padding }

HtmlPool == { <<"<", "a", "d", "s", ">">>, <<"<", "p", ">">> }

Tags == [kind : {"script", "iframe"}, src : SrcPool, html : HtmlPool]

\* A call of inspect_for_ad_elements: one open, focused window showing a
\* document of at most MaxTags script and iframe tags.
InitInspect ==
    /\ call = "inspect_for_ad_elements"
    /\ pc = EntryLabel(call)
    /\ stack = <<"done">>
    /\ exc = "none"
    /\ ret = RetNone
    /\ opened = 1
    /\ handles = <<1>>
    /\ focus = 1
    /\ main_handle = 0
    /\ primary_handle = 0
    /\ pending = <<>>
    /\ handle = 0
    /\ log = <<>>
    /\ faultLog = <<>>
    /\ NoPage
    /\ NoDismissLocals
    /\ NoWait
    /\ doc \in SeqsUpTo(Tags, MaxTags)
    /\ found_elements = <<>>
    /\ NoRun
    /\ NoStep
    /\ entry = [handles |-> handles, focus |-> focus, main |-> 0, overlay |-> overlay]

\* A run of one of the four testers: run_ad_navigation_test(iterations,
\* min_wait, max_wait, ...), or main calling perform_test_cycle(views),
\* exercise_navigation(iterations), exercise_games_button(attempts) with any
\* budget; no session exists yet.
InitRun ==
    /\ call \in Runners
    /\ pc = EntryLabel(call)
    /\ stack = <<"done">>
    /\ exc = "none"
    /\ ret = RetNone
    /\ opened = 0
    /\ handles = <<>>
    /\ focus = 0
    /\ main_handle = 0
    /\ primary_handle = 0
    /\ pending = <<>>
    /\ handle = 0
    /\ log = <<>>
    /\ faultLog = <<>>
    /\ NoPage
    /\ NoDismissLocals
    /\ NoWait
    /\ NoDocument
    /\ session = "none"
    /\ driver = FALSE
    /\ quits = 0
    /\ args \in [iterations : 0..MaxBudget,
                 min_wait : IF call = "run_ad_navigation_test" THEN 0..MaxWait ELSE {0},
                 max_wait : IF call = "run_ad_navigation_test" THEN 0..MaxWait ELSE {0}]
    /\ cycle = 0
    /\ finished = 0
    /\ wait_duration = -1
    /\ results = <<>>
    /\ failures = <<>>
    /\ cancelled = <<>>
    /\ actedAfterFatal = FALSE
    /\ exit_code = -1
    /\ summary = FALSE
    /\ debug = <<>>
    /\ NoStep
    /\ entry = args

\* Two calls in a row of a window closer, from any state of a call.
InitTwice ==
    /\ call \in Reconcilers
    /\ pc = "rw_call"
    /\ stack = <<"done">>
    /\ exc = "none"
    /\ ret = RetNone
    /\ opened = MaxWindows
    /\ handles \in InjSeqs(1..MaxWindows) \ {<<>>}
    /\ focus \in 1..MaxWindows
    /\ main_handle \in (IF call = "close_unexpected_windows" THEN 1..MaxWindows ELSE {0})
    /\ primary_handle = 0
    /\ pending = <<>>
    /\ handle = 0
    /\ log = <<>>
    /\ faultLog = <<>>
    /\ NoPage
    /\ NoDismissLocals
    /\ NoWait
    /\ NoDocument
    /\ NoRun
    /\ caller = "twice"
    /\ calls = <<>>
    /\ ready = TRUE
    /\ popup_urls = <<>>
    /\ adsDetected = FALSE
    /\ both_buttons_visible = FALSE
    /\ entry = [handles |-> handles, focus |-> focus, main |-> main_handle, overlay |-> overlay]

\* One click cycle: the main window, perhaps a window left over, focus on
\* the main window.
InitClick ==
    /\ call \in {"exercise_navigation", "click_games_button"}
    /\ pc = "ck_find"
    /\ stack = <<"done">>
    /\ exc = "none"
    /\ ret = RetNone
    /\ opened = 2
    /\ handles \in {<<1>>, <<1, 2>>}
    /\ focus = 1
    /\ main_handle = 1
    /\ primary_handle = 0
    /\ pending = <<>>
    /\ handle = 0
    /\ log = <<>>
    /\ faultLog = <<>>
    /\ NoPage
    /\ NoDismissLocals
    /\ NoWait
    /\ NoDocument
    /\ session = "live"
    /\ driver = TRUE
    /\ quits = 0
    /\ args = [iterations |-> 1, min_wait |-> 0, max_wait |-> 0]
    /\ cycle = 1
    /\ finished = 0
    /\ wait_duration = 0
    /\ results = <<>>
    /\ failures = <<>>
    /\ cancelled = <<>>
    /\ actedAfterFatal = FALSE
    /\ exit_code = -1
    /\ summary = FALSE
    /\ debug = <<>>
    /\ caller = "click_cycle"
    /\ calls = <<>>
    /\ ready = TRUE
    /\ popup_urls = <<>>
    /\ adsDetected = FALSE
    /\ both_buttons_visible = FALSE
    /\ entry = [handles |-> handles, focus |-> focus, main |-> main_handle, overlay |-> overlay]

\* The pages a composed step is run on: no close control, one the first
\* locator finds, or one only the Edge fallback search finds.
StepPages ==
    {[present |-> {}, spans |-> <<>>], [present |-> {1}, spans |-> <<>>],
     [present |-> {}, spans |-> <<"shown">>]}

StepCallers == {"run_ad_navigation_test", "prepare_main_view", "simulate_view"}

StepEntry(c) ==
    CASE c = "run_ad_navigation_test" -> {"el_get", "eh_get"}
      [] c = "prepare_main_view" -> {"pm_reconcile"}
      [] c = "simulate_view" -> {"smv_get"}

\* A step of a tester on a live session: one or two windows open, focus on
\* the first.
InitStep ==
    /\ caller \in StepCallers
    /\ call = caller
    /\ pc \in StepEntry(caller)
    /\ stack = <<"done">>
    /\ exc = "none"
    /\ ret = RetNone
    /\ opened = 2
    /\ handles \in {<<1>>, <<1, 2>>}
    /\ focus = 1
    /\ main_handle = 0
    /\ primary_handle = 0
    /\ pending = <<>>
    /\ handle = 0
    /\ log = <<>>
    /\ faultLog = <<>>
    /\ \E page \in StepPages : present = page.present /\ closeSpans = page.spans
    /\ overlay \in BOOLEAN
    /\ NoDismissLocals
    /\ now = 0
    /\ adsNow = {}
    /\ timeline = <<adsNow>>
    /\ timeout = 1
    /\ ad_locator = 0
    /\ end_time = 0
    /\ NoDocument
    /\ session = "live"
    /\ driver = TRUE
    /\ quits = 0
    /\ args = [iterations |-> 1, min_wait |-> 0, max_wait |-> 0]
    /\ cycle = 1
    /\ finished = 0
    /\ wait_duration = 0
    /\ results = <<>>
    /\ failures = <<>>
    /\ cancelled = <<>>
    /\ actedAfterFatal = FALSE
    /\ exit_code = -1
    /\ summary = FALSE
    /\ debug = <<>>
    /\ calls = <<>>
    /\ ready = TRUE
    /\ popup_urls = <<>>
    /\ adsDetected = FALSE
    /\ both_buttons_visible = FALSE
    /\ entry = [handles |-> handles, focus |-> focus, main |-> main_handle, overlay |-> overlay]

Init == InitStep \/ InitClick \/ InitTwice \/ InitReconcile \/ InitDismiss \/ InitWait \/ InitInspect \/ InitRun

NextReconcile ==
    \/ cuw_enumerate \/ cuw_loop \/ cuw_switch \/ cuw_title \/ cuw_close
    \/ cuw_reselect
    \/ caw_primary \/ caw_enumerate \/ caw_loop \/ caw_switch \/ caw_close
    \/ caw_back

NextDismiss ==
    \/ cap_wait \/ cap_scroll \/ cap_click \/ cap_fallback \/ cap_fb_loop
    \/ cap_fb_click
    \/ dio_primary \/ dio_wait \/ dio_click \/ dio_url \/ dio_before
    \/ dio_body \/ dio_offset \/ dio_after \/ dio_nloop \/ dio_nswitch
    \/ dio_nurl \/ dio_nclose \/ dio_back \/ dio_reload \/ dio_retry

NextWait == wfa_start \/ wfa_poll \/ wfa_sleep

NextInspect == iae_scripts \/ iae_iframes \/ iae_report

NextRun ==
    \/ ran_swap \/ ced_launch \/ ced_configure \/ ran_load \/ ran_sushi
    \/ ran_home \/ ran_fav \/ ran_dwell \/ ran_refresh \/ ran_check
    \/ ran_interrupt \/ ran_except \/ ran_finally
    \/ md_enter \/ md_finally \/ md_interrupt
    \/ ptc_loop \/ sv_view \/ ptc_record \/ ptc_refresh \/ mat_main
    \/ nav_setup \/ nav_loop \/ nav_click \/ nav_observe \/ nav_record
    \/ nav_error \/ nav_recover \/ nav_main
    \/ egb_setup \/ egb_loop \/ egb_prepare \/ cgb_find \/ cgb_click
    \/ cgb_observe \/ egb_record \/ egb_home \/ play_main

NextTwice == NextReconcile \/ rw_call

NextPageReady == wpr_start \/ wpr_poll \/ wpr_sleep

NextStep ==
    \/ el_get \/ el_handle \/ el_ready \/ el_dismiss \/ el_reconcile
    \/ el_inspect \/ pa_sushi \/ sa_settle \/ sa_dismiss \/ sa_reconcile
    \/ sa_end \/ eh_get \/ eh_handle \/ eh_ready \/ eh_dismiss
    \/ eh_reconcile \/ pa_fav \/ fa_settle \/ fa_dismiss \/ fa_reconcile
    \/ fa_end \/ st_end
    \/ pm_reconcile \/ pm_dismiss
    \/ smv_get \/ smv_reconcile \/ smv_dismiss \/ smv_wait \/ smv_return
    \/ NextPageReady \/ NextReconcile \/ NextDismiss \/ NextWait
    \/ NextInspect

NextClick ==
    \/ ck_find \/ ck_before \/ ck_click \/ ck_overlay \/ ck_visible
    \/ ck_after \/ ck_loop \/ ck_switch \/ ck_url \/ ck_ads \/ ck_close
    \/ ck_back \/ ck_post \/ ck_retry \/ ck_final \/ ck_record \/ ck_error
    \/ ck_recover

Next == NextStep \/ NextClick \/ rw_call \/ NextReconcile \/ NextDismiss \/ NextWait \/ NextInspect \/ NextRun

\* One call of a window closer, of an overlay dismisser, of wait_for_ads, of
\* inspect_for_ad_elements; Spec is any of them.
SpecReconcile == InitReconcile /\ [][NextReconcile]_vars

SpecDismiss == InitDismiss /\ [][NextDismiss]_vars

SpecTwice == InitTwice /\ [][NextTwice]_vars

SpecClick == InitClick /\ [][NextClick]_vars

SpecStep == InitStep /\ [][NextStep]_vars

\* A dismisser call whose statements each complete: every wait of the code
\* has a timeout, so the running call always takes its next step.
SpecDismissFair == SpecDismiss /\ WF_vars(NextDismiss)

SpecWait == InitWait /\ [][NextWait]_vars

SpecInspect == InitInspect /\ [][NextInspect]_vars

SpecRun == InitRun /\ [][NextRun]_vars

Spec == Init /\ [][Next]_vars

\* ------------------------------------------------- claims: window closers
ReconcileDone == pc = "done" /\ call \in Reconcilers

\* The primary the caller knows: the main_handle argument (Edge), the
\* focused window (Monetag).
KnownPrimary == IF call = "close_unexpected_windows" THEN entry.main ELSE entry.focus

\* The primary after the call: the returned handle (Edge), the focus (Monetag).
ResultPrimary == IF call = "close_unexpected_windows" THEN ret.val ELSE focus

\* C1: whenever a window closer returns (no fault injected), exactly one
\* window is open and it is the returned primary (close_additional_windows:
\* the focused window).
C1_ExactlyOnePrimaryLeft ==
    (ReconcileDone /\ exc = "none" /\ faultLog = <<>>)
        => (Len(handles) = 1 /\ handles[1] = ResultPrimary)

\* C2: called with the known primary closed and a window open (no fault
\* injected), the closer returns normally, the result is the first handle of the enumeration, that
\* window is open and focused, and a warning is logged.
C2_PromotesFirstHandle ==
    (ReconcileDone /\ KnownPrimary \notin Range(entry.handles) /\ faultLog = <<>>)
        => /\ exc = "none"
           /\ ResultPrimary = entry.handles[1]
           /\ IsOpen(ResultPrimary)
           /\ focus = ResultPrimary
           /\ "warning: main window changed" \in Range(log)

\* C3: one fault on the switch to, or the close of, a secondary handle is
\* absorbed: the closer does not raise, every other secondary window is
\* closed and focus is back on the primary.
SecondaryFaultSites == {"cuw_switch", "cuw_close", "caw_switch", "caw_close"}

C3_SecondaryFaultAbsorbed ==
    (/\ ReconcileDone
     /\ Len(faultLog) = 1
     /\ faultLog[1].at \in SecondaryFaultSites
     /\ IsOpen(KnownPrimary))
        => /\ exc = "none"
           /\ \A h \in Range(entry.handles) \ {KnownPrimary, faultLog[1].h} :
                 h \notin Range(handles)
           /\ focus = KnownPrimary

\* --------------------------------------------- claims: overlay dismissers
DismissDone == pc = "done" /\ call \in Dismissers

\* The attempts on locators of one pass, in the order they were made.
Attempts(pass) == SelectSeq(trace, LAMBDA e : e.op = "locator" /\ e.pass = pass)

Clicked(ops) == \E j \in DOMAIN trace : trace[j].op \in ops /\ trace[j].out = "clicked"

\* C4: the first pass takes the locators in list order, one attempt each; a
\* successful click is the last thing the dismisser does; and with only the
\* k-th locator clickable the whole call is k-1 timeouts followed by the
\* click on locator k.
C4_InOrderFirstMatchWins ==
    (call \in Dismissers) =>
        /\ \A j \in DOMAIN Attempts(1) : Attempts(1)[j].loc = j
        /\ \A j \in DOMAIN trace :
              (trace[j].op = "locator" /\ trace[j].pass = 1 /\ trace[j].out = "clicked")
                  => (j = Len(trace) /\ pc = "done")
        /\ \A k \in Locators(call) :
              (/\ pc = "done"
               /\ present = {k}
               /\ ~entry.overlay
               /\ faultLog = <<>>
               /\ entry.focus \in Range(entry.handles))
                  => trace = [j \in 1..k |->
                                Event("locator", 1, j,
                                      IF j < k THEN "timeout" ELSE "clicked")]

\* C4 witness: only the third Edge locator is clickable; two timeouts, then
\* the click.
C4_ThirdLocatorClicked ==
    /\ pc = "done"
    /\ call = "close_ad_popup_if_present"
    /\ present = {3}
    /\ Len(trace) = 3
    /\ trace[1].out = "timeout"
    /\ trace[2].out = "timeout"
    /\ trace[3] = Event("locator", 1, 3, "clicked")

\* C5 as claimed: a dismisser that returns (no fault injected) returns True
\* exactly when it clicked a dismiss control.
C5_ReturnsTrueIffClicked ==
    (DismissDone /\ exc = "none" /\ faultLog = <<>>) =>
        ((ret = RetBool(TRUE)) <=> Clicked({"locator", "fallback"}))

\* C5 amended: close_ad_popup_if_present never raises and returns True
\* exactly when it clicked a locator or a fallback button, else False;
\* dismiss_initial_overlay returns None whether or not it clicked.
C5_EdgeBoolMonetagNone ==
    /\ (pc = "done" /\ call = "close_ad_popup_if_present") =>
          /\ exc = "none"
          /\ ret \in {RetBool(TRUE), RetBool(FALSE)}
          /\ (ret = RetBool(TRUE)) <=> Clicked({"locator", "fallback"})
    /\ (pc = "done" /\ call = "dismiss_initial_overlay" /\ exc = "none") =>
          ret = RetNone

\* C5 witness: the Edge dismisser returned True after the fallback click.
C5_FallbackClickReturnsTrue ==
    /\ pc = "done"
    /\ call = "close_ad_popup_if_present"
    /\ ret = RetBool(TRUE)
    /\ Clicked({"fallback"})
    /\ Len(Attempts(1)) = 3

\* C6: no error of a browser call leaves an overlay dismisser.
C6_NoErrorLeavesDismisser == DismissDone => exc = "none"

\* The synthetic click of dismiss_initial_overlay landed and the call returned.
SyntheticDone ==
    /\ pc = "done"
    /\ call = "dismiss_initial_overlay"
    /\ exc = "none"
    /\ Clicked({"body", "offset"})

Reloads == Len(SelectSeq(trace, LAMBDA e : e.op = "reload"))

RetryPasses == IF Attempts(2) = <<>> THEN 0 ELSE 1

\* C7 as claimed: after the synthetic click (no fault injected), a closed
\* new window means one reload and one retry pass; no new window means no
\* reload and no retry pass.
C7_RetryOnlyAfterPopup ==
    (SyntheticDone /\ faultLog = <<>>) =>
        /\ (\E h \in Range(new_handles) : h \notin Range(handles))
              => (Reloads = 1 /\ RetryPasses = 1)
        /\ (new_handles = <<>>) => (Reloads = 0 /\ RetryPasses = 0)

\* C7 amended: after the synthetic click the reload is attempted once
\* exactly when a new window was found, and the retry pass over the locators
\* (in list order, one attempt each) is made once in either case.
C7_ReloadAfterPopupRetryAlways ==
    SyntheticDone =>
        /\ Reloads = (IF new_handles # <<>> THEN 1 ELSE 0)
        /\ RetryPasses = 1
        /\ \A j \in DOMAIN Attempts(2) : Attempts(2)[j].loc = j

\* C7 witness: a popup was opened by the synthetic click and closed, the
\* page reloaded, the retry pass made.
C7_PopupClosedReloaded ==
    /\ SyntheticDone
    /\ new_handles # <<>>
    /\ \A h \in Range(new_handles) : h \notin Range(handles)
    /\ Reloads = 1
    /\ Len(Attempts(2)) = 5

\* ---------------------------------------------------- claims: wait_for_ads
WaitDone == pc = "done" /\ call = "wait_for_ads" /\ exc = "none"

\* Some watched locator is present at tick t of the call.
AdAt(t) == timeline[t + 1] # {}

\* C8: wait_for_ads returns True at the first tick at which any watched
\* locator is present, and returns False only if none was present at any
\* tick of the timeout.
C8_TrueAsSoonAsAnyPresent ==
    WaitDone =>
        /\ (ret = RetBool(TRUE)) => (AdAt(now) /\ \A t \in 0..(now - 1) : ~AdAt(t))
        /\ (ret = RetBool(FALSE)) => \A t \in 0..(timeout - 1) : ~AdAt(t)

\* C9: a wait_for_ads that finds nothing has waited at most timeout ticks.
C9_FalseWithinTimeout ==
    (WaitDone /\ ret = RetBool(FALSE)) => now <= timeout

\* ----------------------------------------- claims: inspect_for_ad_elements
InspectDone == pc = "done" /\ call = "inspect_for_ad_elements" /\ exc = "none"

\* A tag is an ad tag when its src, or without a src its markup, holds a
\* keyword in any case.
IsAdTag(tag) ==
    LET text == IF tag.src # <<>> THEN tag.src ELSE tag.html
    IN  \E n \in DOMAIN ad_keywords : IsSubstring(ad_keywords[n], Lower(text))

AdTags(kind) == {i \in DOMAIN doc : doc[i].kind = kind /\ IsAdTag(doc[i])}

Found(kind) == {j \in DOMAIN found_elements : found_elements[j][1] = kind}

\* C10: found is True exactly when some script or iframe tag is an ad tag;
\* each ad tag is recorded once, under its kind; without ad tags the result
\* is False and the list empty.
C10_FoundIffAdTag ==
    InspectDone =>
        /\ (ret = RetBool(TRUE)) <=> (AdTags("script") \cup AdTags("iframe") # {})
        /\ ret \in {RetBool(TRUE), RetBool(FALSE)}
        /\ Cardinality(Found("script")) = Cardinality(AdTags("script"))
        /\ Cardinality(Found("iframe")) = Cardinality(AdTags("iframe"))
        /\ Len(found_elements) =
              Cardinality(AdTags("script")) + Cardinality(AdTags("iframe"))

\* C10 witness: an iframe whose src holds "DoubleClick" is the one match.
C10_DoubleClickIframeFound ==
    /\ InspectDone
    /\ ret = RetBool(TRUE)
    /\ \E i \in DOMAIN doc :
          /\ doc[i].kind = "iframe"
          /\ IsSubstring(<<"D", "o", "u", "b", "l", "e", "C", "l", "i", "c", "k">>, doc[i].src)
    /\ Len(found_elements) = 1
    /\ found_elements[1][1] = "iframe"

\* ------------------------------------------------------ claims: run loops
RunDone == pc = "done" /\ call \in Runners

Edge == call = "run_ad_navigation_test"

\* A session was started (webdriver.Edge(...) did not raise).
Acquired == session # "none"

LowerBound == IF entry.min_wait <= entry.max_wait THEN entry.min_wait ELSE entry.max_wait

UpperBound == IF entry.min_wait <= entry.max_wait THEN entry.max_wait ELSE entry.min_wait

\* C11: past the swap the effective bounds of run_ad_navigation_test are the
\* given ones in ascending order, a warning is logged when they were given
\* in descending order, every dwell drawn lies between the smaller and the
\* larger given bound, and a run without a fault does not fail.
C11_DwellWithinSwappedBounds ==
    Edge =>
        /\ (pc # "ran_swap") =>
              /\ args.min_wait = LowerBound
              /\ args.max_wait = UpperBound
              /\ (entry.min_wait > entry.max_wait)
                    => "warning: swapped wait bounds" \in Range(log)
        /\ (wait_duration # -1) =>
              (LowerBound <= wait_duration /\ wait_duration <= UpperBound)
        /\ (pc = "done" /\ Acquired /\ faultLog = <<>>) => exc = "none"

\* C11 witness: a run given min_wait = 2, max_wait = 0 drew the dwell 1 and
\* ended normally.
C11_SwappedRunDrewOne ==
    /\ RunDone
    /\ Edge
    /\ entry.min_wait = 2
    /\ entry.max_wait = 0
    /\ wait_duration = 1
    /\ exc = "none"
    /\ finished >= 1

\* C12: with a budget N >= 1 no cycle beyond the N-th is started, and a run
\* without fault or cancellation ends by itself after exactly N cycles (the
\* Monetag runners with N records).
C12_BudgetCyclesThenStops ==
    (call \in Runners /\ entry.iterations >= 1) =>
        /\ cycle <= entry.iterations
        /\ finished <= entry.iterations
        /\ (pc = "done" /\ Acquired /\ faultLog = <<>> /\ cancelled = <<>>) =>
              /\ exc = "none"
              /\ finished = entry.iterations
              /\ ~Edge => Len(results) = entry.iterations

\* C12 witness: run_ad_navigation_test(iterations=2) ended after its second
\* cycle, undisturbed.
C12_TwoCyclesThenDone ==
    /\ RunDone
    /\ Edge
    /\ entry.iterations = 2
    /\ finished = 2
    /\ faultLog = <<>>
    /\ cancelled = <<>>
    /\ exc = "none"

\* C13 as claimed: a run with budget 0 ends only by a cancellation or a fault.
C13_ZeroBudgetNeverStops ==
    (RunDone /\ entry.iterations = 0 /\ Acquired)
        => (cancelled # <<>> \/ faultLog # <<>>)

\* C13 amended: run_ad_navigation_test with budget 0 never takes the break
\* and ends only by a cancellation or a fault; the Monetag runners with
\* budget 0 run no cycle at all.
C13_EdgeUnboundedMonetagEmpty ==
    (call \in Runners /\ entry.iterations = 0) =>
        IF Edge
        THEN /\ "info: completed configured iteration count" \notin Range(log)
             /\ (pc = "done" /\ Acquired) => (cancelled # <<>> \/ faultLog # <<>>)
        ELSE cycle = 0 /\ finished = 0 /\ results = <<>>

\* C13 witness: run_ad_navigation_test with budget 0 is in its third cycle.
C13_ThirdCycleOfUnbounded ==
    /\ Edge
    /\ entry.iterations = 0
    /\ pc = "ran_load"
    /\ cycle = 3
    /\ finished = 2

\* The statements of a cycle of each run loop.
CycleSites == {"ran_load", "ran_sushi", "ran_home", "ran_fav", "ran_dwell",
               "ran_refresh",
               "sv_view", "ptc_refresh",
               "nav_click", "nav_observe", "nav_recover",
               "egb_prepare", "cgb_find", "cgb_click", "cgb_observe", "egb_home"}

\* A session-fatal WebDriverException was raised by a call of a cycle.
FatalInCycle ==
    \E i \in DOMAIN faultLog :
        faultLog[i].kind = "fatal" /\ faultLog[i].at \in CycleSites

\* C14: after a session-fatal fault in a cycle the run makes no browser
\* call but the teardown, and it ends with driver.quit() called once and
\* the fault handed to the caller (raised, or main's exit code 1).
C14_FatalStopsTeardownSurfaces ==
    (call \in Runners /\ FatalInCycle) =>
        /\ ~actedAfterFatal
        /\ (pc = "done") =>
              /\ quits = 1
              /\ (exc = "WebDriverException" \/ exit_code = 1)

\* C15: a run that ends has called driver.quit() once when a session was
\* started, and not at all when webdriver.Edge(...) raised.
C15_QuitExactlyOnceIfAcquired ==
    RunDone => quits = (IF Acquired THEN 1 ELSE 0)

\* C16: a KeyboardInterrupt that arrives in a cycle of
\* run_ad_navigation_test lets that cycle run to its end; the run then quits
\* the driver and returns normally.
C16_CancelAfterInFlightCycle ==
    (/\ RunDone
     /\ Edge
     /\ cancelled # <<>>
     /\ cancelled[1].at \in CycleSites)
        => /\ finished >= cancelled[1].cycle
           /\ quits = 1
           /\ exc = "none"

\* No record has an error and every record reports the ads.
AllClean ==
    \A i \in DOMAIN results :
        results[i].error = "none" /\ results[i].ads_detected

\* C17: a Monetag tester whose run met no fault exits with 0 exactly when
\* no record has an error and none misses the ads.
C17_ExitZeroIffClean ==
    (/\ RunDone
     /\ ~Edge
     /\ Acquired
     /\ faultLog = <<>>
     /\ cancelled = <<>>)
        => ((exit_code = 0) <=> AllClean)

\* C18: a Monetag tester whose main returns after at least one cycle was
\* recorded has printed its summary.
C18_SummaryAlwaysReported ==
    (RunDone /\ ~Edge /\ exc = "none" /\ results # <<>>) => summary

\* Every injected fault was transient and hit a primary action.
OnlyPrimaryFaults ==
    /\ \A i \in DOMAIN faultLog : faultLog[i].kind = "transient"
    /\ Len(faultLog) = Len(SelectSeq(failures, LAMBDA f : f.kind = "error"))

\* The error lines the Edge loop logs for a failed primary action.
PrimaryErrorLines ==
    {"error: sushi card click failed", "error: sushi card timed out",
     "error: favourite button click failed", "error: favourite button timed out"}

\* The run went through its whole budget and ended normally.
RanToBudget == exc = "none" /\ (entry.iterations >= 1 => finished = entry.iterations)

SequenceNumber(r) ==
    CASE call = "perform_test_cycle" -> r.number
      [] call = "exercise_navigation" -> r.iteration
      [] call = "exercise_games_button" -> r.attempt

LoopHeads == {"ptc_loop", "nav_loop", "egb_loop"}

\* C20: in a Monetag runner the i-th record carries number i, the list has
\* one record per cycle begun (the cycle in progress may still lack its
\* record) and exactly one per cycle at the head of the loop, and a step
\* only appends: records already in the list stay as they are.
C20_OneRecordPerCycleInOrder ==
    /\ []((call \in Runners /\ ~Edge) =>
             /\ \A i \in DOMAIN results : SequenceNumber(results[i]) = i
             /\ Len(results) \in {cycle - 1, cycle}
             /\ finished <= Len(results)
             /\ (pc \in LoopHeads) => (Len(results) = cycle /\ finished = cycle))
    /\ [][\A i \in DOMAIN results :
             Len(results') >= i /\ results'[i] = results[i]]_vars

\* C20 witness: perform_test_cycle(2) ended with the records of view 1 and
\* view 2.
C20_TwoViewsRecorded ==
    /\ RunDone
    /\ call = "perform_test_cycle"
    /\ Len(results) = 2
    /\ results[1].number = 1
    /\ results[2].number = 2
    /\ exit_code \in {0, 2}

\* ------------------------------------------------- claims: descriptor length
\* The text a tag is described by, lower-cased, and the ad tags of a kind in
\* document order.
FullDescriptor(tag) == Lower(IF tag.src # <<>> THEN tag.src ELSE tag.html)

AdTagSeq(kind) == SelectSeq(doc, LAMBDA tag : tag.kind = kind /\ IsAdTag(tag))

AdTagsInOrder == AdTagSeq("script") \o AdTagSeq("iframe")

\* C27: the j-th recorded descriptor is the prefix of the j-th ad tag's full
\* lower-cased descriptor, of length min(160, len); whether a tag is an ad
\* tag is decided on the full descriptor, so a tag whose only keyword lies
\* beyond character 160 is recorded.
C27_RecordedPrefixFullClassification ==
    InspectDone =>
        /\ Len(found_elements) = Len(AdTagsInOrder)
        /\ \A j \in DOMAIN found_elements :
              LET full == FullDescriptor(AdTagsInOrder[j])
                  n == IF Len(full) < DescriptorLimit THEN Len(full) ELSE DescriptorLimit
              IN  /\ Len(found_elements[j][2]) = n
                  /\ \A i \in 1..n : found_elements[j][2][i] = full[i]
                  /\ found_elements[j][1] = AdTagsInOrder[j].kind

\* C27 witness: a script whose only keyword starts at character 161 is
\* reported, and its recorded descriptor of 160 characters holds no keyword.
C27_KeywordBeyondLimitReported ==
    /\ InspectDone
    /\ ret = RetBool(TRUE)
    /\ Len(doc) = 1
    /\ doc[1].kind = "script"
    /\ doc[1].src = Padding \o <<"A", "d", "s">>
    /\ Len(found_elements) = 1
    /\ Len(found_elements[1][2]) = DescriptorLimit
    /\ ~HasAdKeyword(found_elements[1][2])

\* ---------------------------------------------- claims: bounded dismissal
Count(op, pass, loc) ==
    Len(SelectSeq(trace, LAMBDA e : e.op = op /\ e.pass = pass /\ e.loc = loc))

SyntheticClicks ==
    Len(SelectSeq(trace, LAMBDA e : e.op \in {"body", "offset"} /\ e.out = "clicked"))

\* C28: within one dismisser call each locator is attempted at most once in
\* the first pass and at most once in the retry pass (the Edge dismisser
\* has no retry pass and clicks at most one fallback button), the body click
\* and the offset click are attempted at most once each and at most one of
\* them lands, the reload is attempted at most once, and the call ends.
C28_BoundedAttemptsThenEnds ==
    /\ []((call \in Dismissers) =>
            /\ \A loc \in Locators(call) :
                  /\ Count("locator", 1, loc) <= 1
                  /\ Count("locator", 2, loc) <= 1
            /\ (call = "close_ad_popup_if_present") => (Attempts(2) = <<>>)
            /\ Count("fallback", 1, 0) <= 1
            /\ Count("body", 1, 0) <= 1
            /\ Count("offset", 1, 0) <= 1
            /\ SyntheticClicks <= 1
            /\ Reloads <= 1)
    /\ <>(pc = "done")

\* C28 witness: a dismiss_initial_overlay call that attempted every locator
\* twice, clicked once, reloaded once and ended.
C28_EveryLocatorTwiceThenDone ==
    /\ pc = "done"
    /\ call = "dismiss_initial_overlay"
    /\ \A loc \in Locators(call) :
          Count("locator", 1, loc) = 1 /\ Count("locator", 2, loc) = 1
    /\ SyntheticClicks = 1
    /\ Reloads = 1

\* ------------------------------------------- claims: synthetic-click frame
\* The statements between the two snapshots' use: the loop over the new
\* handles and the switch back.
SyntheticLoop == {"dio_nloop", "dio_nswitch", "dio_nurl", "dio_nclose", "dio_back"}

\* The windows opened since the call began (handles 1 and 2 existed before).
OpenedSinceCall == {h \in 1..opened : h > 2}

\* C23: in a dismiss_initial_overlay call without faults, the new handles
\* computed from the two snapshots are exactly the windows opened by the
\* synthetic click; when the call returns each of them is closed, every
\* window of the before-snapshot (the windows open at the call) is still
\* open, and focus is on the handle that had it at the call.
C23_NewClosedOldKeptFocusBack ==
    /\ (call = "dismiss_initial_overlay" /\ pc \in SyntheticLoop /\ faultLog = <<>>) =>
          /\ Range(new_handles) = OpenedSinceCall
          /\ before_handles = Range(entry.handles)
    /\ (SyntheticDone /\ faultLog = <<>>) =>
          /\ \A h \in Range(new_handles) : h \notin Range(handles)
          /\ \A h \in before_handles : h \in Range(handles)
          /\ before_handles = Range(entry.handles)
          /\ focus = entry.focus

\* C23 witness: called with two windows open and focus on the second, the
\* synthetic click opened a window; it was closed, both old windows are open
\* and focus is back on the second.
C23_PopupClosedFocusOnSecond ==
    /\ SyntheticDone
    /\ faultLog = <<>>
    /\ entry.handles = <<1, 2>>
    /\ entry.focus = 2
    /\ new_handles = <<3>>
    /\ 3 \notin Range(handles)
    /\ {1, 2} \subseteq Range(handles)
    /\ focus = 2

\* ------------------------------------------- claims: reconciliation twice
\* The first call found only the primary window p open, focused and (Edge)
\* passed as main_handle.
OnlyPrimary(p) ==
    /\ calls # <<>>
    /\ calls[1].handles = <<p>>
    /\ calls[1].focus = p
    /\ (call = "close_unexpected_windows") => (calls[1].main = p)

\* C24: called with only the primary window open (no fault), a window
\* closer closes nothing, leaves the window list and the focus as they
\* were, logs nothing and returns the same primary (Edge) or None
\* (Monetag); the second call in a row starts from that same state and ends
\* in it.
C24_IdempotentOnPrimaryOnly ==
    \A p \in 1..MaxWindows :
        (caller = "twice" /\ pc = "done" /\ faultLog = <<>> /\ OnlyPrimary(p)) =>
            /\ exc = "none"
            /\ Len(calls) = 2
            /\ calls[2].handles = <<p>>
            /\ calls[2].focus = p
            /\ calls[2].main = calls[1].main
            /\ calls[2].ret = (IF call = "close_unexpected_windows"
                               THEN RetHandle(p) ELSE RetNone)
            /\ handles = <<p>>
            /\ focus = p
            /\ main_handle = calls[1].main
            /\ ret = calls[2].ret
            /\ log = <<>>

\* C24 witness: close_unexpected_windows ran twice with window 2 alone.
C24_TwiceOnWindowTwo ==
    /\ caller = "twice"
    /\ pc = "done"
    /\ call = "close_unexpected_windows"
    /\ faultLog = <<>>
    /\ OnlyPrimary(2)
    /\ Len(calls) = 2
    /\ handles = <<2>>
    /\ focus = 2
    /\ ret = RetHandle(2)

\* ----------------------------------------------------- claims: click cycle
ClickCycle == caller = "click_cycle"

\* C25: when the popup loop of a click cycle is over and the next statement
\* acts on the page, the session's focus is on main_handle.
C25_FocusOnMainAfterPopups ==
    (ClickCycle /\ pc = "ck_post") => focus = main_handle

\* C29: in the popup loop driver.close() is executed only with focus on the
\* new handle of that pass, and the main window is open when the loop is
\* over.
C29_CloseOnlyOnPopupMainKept ==
    /\ (ClickCycle /\ pc = "ck_close") => focus = handle
    /\ (ClickCycle /\ pc \in {"ck_back", "ck_post"}) => IsOpen(main_handle)

ButtonsVisible(r) ==
    IF call = "exercise_navigation" THEN r.both_buttons_visible ELSE r.buttons_visible

\* C30: in every record of a click cycle, no error and buttons not visible
\* means ads_detected; an error means ads_detected false, buttons not
\* visible and no popup address.
C30_RecordFieldsConsistent ==
    ClickCycle =>
        \A i \in DOMAIN results :
            /\ (results[i].error = "none" /\ ~ButtonsVisible(results[i]))
                  => results[i].ads_detected
            /\ (results[i].error # "none")
                  => /\ ~results[i].ads_detected
                     /\ ~ButtonsVisible(results[i])
                     /\ results[i].popup_urls = <<>>

\* C30 witness: click_games_button found no window and no ad element, the
\* buttons were not visible, and its record says ads_detected.
C30_MissingButtonsCountAsAds ==
    /\ ClickCycle
    /\ pc = "done"
    /\ call = "click_games_button"
    /\ exc = "none"
    /\ new_handles = <<>>
    /\ ~adsDetected
    /\ Len(results) = 1
    /\ results[1].error = "none"
    /\ ~results[1].buttons_visible
    /\ results[1].ads_detected


\* ---------------------------------------------------------------- C26
EdgeStep == caller = "run_ad_navigation_test"

AfterPageReady == EdgeStep /\ pc \in {"el_dismiss", "eh_dismiss"}

ReadyWarning == "warning: timed out waiting for readyState complete"

LastCall(n) == calls[Len(calls) - n].fn

\* C26: wait_for_page_ready never lets a TimeoutException out: when it comes
\* back to the cycle without the document being loaded, its last act was to
\* log the timeout warning, and whether or not the document was loaded the
\* next statement of the cycle is the call of close_ad_popup_if_present.
C26_TimeoutWarnsAndProceeds ==
    /\ [](AfterPageReady =>
            /\ exc # "TimeoutException"
            /\ (exc = "none" /\ ~ready) =>
                  (log # <<>> /\ log[Len(log)] = ReadyWarning))
    /\ [][(AfterPageReady /\ exc = "none") =>
            /\ pc' = EntryLabel("close_ad_popup_if_present")
            /\ calls' = Append(calls, CallRecord("close_ad_popup_if_present"))]_vars

C26_TimedOutThenDismisserCalled ==
    /\ EdgeStep
    /\ pc = EntryLabel("close_ad_popup_if_present")
    /\ ~ready
    /\ log # <<>> /\ log[Len(log)] = ReadyWarning
    /\ Len(calls) >= 2
    /\ LastCall(0) = "close_ad_popup_if_present"
    /\ LastCall(1) = "wait_for_page_ready"

\* ---------------------------------------------------------------- C21
IsDismisser(fn) == fn \in {"close_ad_popup_if_present", "dismiss_initial_overlay"}

IsReconciler(fn) == fn \in {"close_unexpected_windows", "close_additional_windows"}

\* C21: in every tester the overlay dismisser is called first and the window
\* reconciliation right after it: each call of a window closer comes
\* directly after a call of a dismisser, and each call of a dismisser is
\* directly followed by a call of a window closer.
C21_DismissThenReconcile ==
    \A i \in 1..Len(calls) :
       /\ IsReconciler(calls[i].fn) => (i > 1 /\ IsDismisser(calls[i - 1].fn))
       /\ (IsDismisser(calls[i].fn) /\ i < Len(calls)) => IsReconciler(calls[i + 1].fn)

\* ---------------------------------------------------------------- C22
PrimaryActions == {"interact_with_sushi_card", "toggle_sushi_favourite"}

\* C22: when a step of run_ad_navigation_test is over, its primary action
\* was followed by the settle sleep, the dismisser and the window
\* reconciliation, in that order, whether or not the action succeeded.
C22_SettleAndOverlayCheckAfterAction ==
    (EdgeStep /\ pc = "st_end") =>
       /\ Len(calls) >= 4
       /\ LastCall(3) \in PrimaryActions
       /\ LastCall(2) = "time.sleep"
       /\ LastCall(1) = "close_ad_popup_if_present"
       /\ LastCall(0) = "close_unexpected_windows"

====
